---- MODULE Spec2Model ----
(***************************************************************************)
(* A model of the artificial-life rules engine of live-whirl               *)
(* (src/src/ball.rs, src/src/tuning.rs, src/src/main.rs).                   *)
(*                                                                         *)
(* One simulation tick is one run of Bevy's Update schedule.  The systems  *)
(* of the schedule (contacts, unstick, update_life_points,                 *)
(* reproduce_balls, add_balls, apply_tuning_updates_system) carry no       *)
(* ordering constraint, so within a tick they run in any order, each at    *)
(* most once.  What a system does through `Commands` (spawn, despawn,      *)
(* add_child) is deferred: it is applied when the schedule ends (EndTick), *)
(* so no system sees another system's, or its own, structural changes of   *)
(* the same tick.  Writes through `&mut Ball` are immediate.               *)
(*                                                                         *)
(* Numbers.  TLC's integers are 32-bit signed, so the program's u32 is     *)
(* modelled as an unsigned word of U32Bits bits (saturation and truncation *)
(* are kept, at that width).  f32 quantities are fixed-point integers:     *)
(*   speeds, forces, impulses, scents, distances  in 1/100,                *)
(*   sharing rates and energy-share fractions     in 1/100 (percent),      *)
(*   reproduction rates and their random draws    in 1/1000000.            *)
(* An f32 holds integers exactly below 2^F32Bits and rounds larger values   *)
(* to its spacing there (nearest, ties to even); the rounding of fractions *)
(* below that is not modelled.                                             *)
(***************************************************************************)
EXTENDS Integers, Sequences, FiniteSets, TLC

\* ------------------------------------------------------------------ bounds
\* Entity ids ever given to balls (ids are never reused, as Bevy's
\* generational entity ids never compare equal to a despawned one).
MaxBalls == 3
\* Width of the modelled u32.
U32Bits == 16
\* Significand bits of the modelled f32 (24 of them at the program's 32-bit
\* width): integers of 2^F32Bits and more are rounded by `as f32`.
F32Bits == 12

\* ------------------------------------------------------- program constants
MAX_JOINTS == 10
PAIRWISE_JOINTS_ALLOWED == 2
MAX_LIFE_POINTS == 1023
DESPAWN_FLOOR == 9
ADJACENT_JOINTS_LIMIT == 5
PROBE_ANGLES == 5
RATE_DEN == 100
DRAW_DEN == 1000000

RECURSIVE Pow2(_)
Pow2(n) == IF n = 0 THEN 1 ELSE 2 * Pow2(n - 1)

U32_MAX == Pow2(U32Bits) - 1

Min(a, b) == IF a < b THEN a ELSE b
Max(a, b) == IF a > b THEN a ELSE b

\* u32::saturating_sub, u32::saturating_add
SaturatingSub(a, b) == IF a > b THEN a - b ELSE 0
SaturatingAdd(a, b) == IF a + b > U32_MAX THEN U32_MAX ELSE a + b

\* `x as u32` of a float: saturates at both ends.
FloatAsU32(x) == IF x < 0 THEN 0 ELSE IF x > U32_MAX THEN U32_MAX ELSE x

\* `x as u32` of a u64: keeps the low bits.
U64AsU32(x) == x % (U32_MAX + 1)

\* The spacing of the f32 values around the magnitude n.
RECURSIVE F32Step(_, _)
F32Step(n, step) ==
    IF n < Pow2(F32Bits) * step THEN step ELSE F32Step(n, 2 * step)

\* num/den rounded to the nearest multiple of step, a tie to the even multiple.
RoundToStep(num, den, step) ==
    LET k == num \div (den * step)
        twice_rest == 2 * (num - k * den * step)
    IN  IF twice_rest < den * step THEN k * step
        ELSE IF twice_rest > den * step THEN (k + 1) * step
        ELSE IF k % 2 = 0 THEN k * step
        ELSE (k + 1) * step

\* `n as f32` of an unsigned integer.
AsF32(n) == RoundToStep(n, 1, F32Step(n, 1))

\* The f32 result of an operation whose exact value is num/den: the result is
\* returned in 1/den.
F32(num, den) ==
    IF num \div den < Pow2(F32Bits) THEN num
    ELSE den * RoundToStep(num, den, F32Step(num \div den, 1))

\* ------------------------------------------------------------------ balls
NoBall == [absent |-> TRUE]

\* A wall or a peg: an entity with a Collider and a Transform, and no Ball, no
\* RigidBody and no Velocity.
Peg == [peg |-> TRUE]

\* struct Ball: age, life_points and the genome.
Ball(age, life_points, max_age, rate, bite, safe, share, scent, distance) ==
    [age |-> age,
     life_points |-> life_points,
     genome_max_age |-> max_age,
     genome_relative_reproduction_rate |-> rate,
     genome_bite_size |-> bite,
     genome_life_points_safe_to_reproduce |-> safe,
     genome_energy_share_with_children |-> share,
     genome_friendly_scent |-> scent,
     genome_friendly_distance |-> distance]

\* Ball::is_friendly_with: |scent_1 - scent_2| < self.genome_friendly_distance,
\* compared on the squares (a distance threshold of 0 or less admits nothing).
ScentDistanceSq(s1, s2) ==
    (s1[1] - s2[1]) * (s1[1] - s2[1]) + (s1[2] - s2[2]) * (s1[2] - s2[2])

IsFriendlyWith(self, other) ==
    /\ self.genome_friendly_distance > 0
    /\ ScentDistanceSq(self.genome_friendly_scent, other.genome_friendly_scent)
         < self.genome_friendly_distance * self.genome_friendly_distance

\* share_total_roughly: the u64 total, the floored f32 share cast to u32, and the
\* remainder cast from u64 to u32.  The result is (higher_part, lower_part).
ShareLowerPart(total, sharing_rate) ==
    FloatAsU32(F32(AsF32(total) * sharing_rate, RATE_DEN) \div RATE_DEN)

\* `total_life_points - lower_part as u64` below zero: a panic in a build with
\* overflow checks, a wrap without them.
ShareUnderflows(preferred_number, other_number, sharing_rate) ==
    ShareLowerPart(preferred_number + other_number, sharing_rate)
        > preferred_number + other_number

ShareTotalRoughly(preferred_number, other_number, sharing_rate) ==
    LET total_life_points == preferred_number + other_number
        lower_part == ShareLowerPart(total_life_points, sharing_rate)
        higher_part == U64AsU32(total_life_points - lower_part)
    IN  <<higher_part, lower_part>>

\* ----------------------------------------------------------------- tuning
\* A float that stands for f32::MAX (label ranges only).
F32_MAX == 2000000000

\* struct PhysicsTuning, with the values the repository's tests construct it
\* with (main.rs gives the same values to the fields it names).
SamplePhysics ==
    [rel_vel_min |-> 15,
     rel_vel_max |-> 36000,
     break_force_threshold |-> 36000,
     energy_transfer_enabled |-> TRUE,
     energy_share_diff_threshold |-> 100,
     energy_share_friendly_rate |-> 50,
     energy_share_parent_not_friendly_child_friendly_rate |-> 75,
     energy_share_parent_friendly_child_not_friendly_rate |-> 25,
     energy_share_hostile_rand_min |-> 50,
     energy_share_hostile_rand_max |-> 90,
     bite_enabled |-> TRUE,
     bite_size_scale |-> 100,
     genome_bite_size_min |-> 0,
     genome_bite_size_max |-> 400,
     genome_energy_share_min |-> 25,
     genome_energy_share_max |-> 75,
     genome_friendly_distance_min |-> 15,
     genome_friendly_distance_max |-> 100,
     genome_friendly_scent_range |-> 100,
     genome_max_age_min |-> 90,
     genome_max_age_max |-> 120,
     genome_reproduction_rate_min |-> 11875,
     genome_reproduction_rate_max |-> 12500,
     genome_safe_reproduction_points_min |-> 0,
     genome_safe_reproduction_points_max |-> 1000,
     survival_cost_per_tick |-> 1,
     show_collision_labels |-> FALSE,
     collision_label_force_min |-> 200,
     show_break_labels |-> FALSE,
     break_label_impulse_min |-> 2000,
     show_age_labels |-> FALSE,
     age_label_min |-> 0,
     age_label_max |-> F32_MAX,
     show_energy_labels |-> FALSE,
     energy_label_min |-> 0,
     energy_label_max |-> F32_MAX]

\* An ApiTuningUpdate, and each group in it, is a function over the names whose
\* Option is Some; a None is a name outside the domain.
EmptyUpdate == [name \in {} |-> 0]

\* The conditional assignments of apply_to, in its order: the path of a leaf in
\* the ApiTuningUpdate, and the PhysicsTuning field the leaf is written to.
ApplyToLeaves ==
    <<<<<<"stickiness", "stick_range", "rel_vel_min">>, "rel_vel_min">>,
      <<<<"stickiness", "stick_range", "rel_vel_max">>, "rel_vel_max">>,
      <<<<"stickiness", "break_threshold">>, "break_force_threshold">>,
      <<<<"energy_share", "energy_transfer_enabled">>, "energy_transfer_enabled">>,
      <<<<"energy_share", "energy_share_diff_threshold">>, "energy_share_diff_threshold">>,
      <<<<"energy_share", "genome_friendly_scent_range">>, "genome_friendly_scent_range">>,
      <<<<"energy_share", "genome_friendly_distance_range", "genome_friendly_distance_min">>, "genome_friendly_distance_min">>,
      <<<<"energy_share", "genome_friendly_distance_range", "genome_friendly_distance_max">>, "genome_friendly_distance_max">>,
      <<<<"energy_share", "energy_share_friendly_rate">>, "energy_share_friendly_rate">>,
      <<<<"energy_share", "energy_share_parent_not_friendly_child_friendly_rate">>, "energy_share_parent_not_friendly_child_friendly_rate">>,
      <<<<"energy_share", "energy_share_parent_friendly_child_not_friendly_rate">>, "energy_share_parent_friendly_child_not_friendly_rate">>,
      <<<<"energy_share", "energy_share_hostile_rand_range", "energy_share_hostile_rand_min">>, "energy_share_hostile_rand_min">>,
      <<<<"energy_share", "energy_share_hostile_rand_range", "energy_share_hostile_rand_max">>, "energy_share_hostile_rand_max">>,
      <<<<"energy_share", "genome_energy_share_range", "genome_energy_share_min">>, "genome_energy_share_min">>,
      <<<<"energy_share", "genome_energy_share_range", "genome_energy_share_max">>, "genome_energy_share_max">>,
      <<<<"bite", "bite_enabled">>, "bite_enabled">>,
      <<<<"bite", "bite_size_scale">>, "bite_size_scale">>,
      <<<<"bite", "genome_bite_size_range", "genome_bite_size_min">>, "genome_bite_size_min">>,
      <<<<"bite", "genome_bite_size_range", "genome_bite_size_max">>, "genome_bite_size_max">>,
      <<<<"max_age", "genome_max_age_range", "genome_max_age_min">>, "genome_max_age_min">>,
      <<<<"max_age", "genome_max_age_range", "genome_max_age_max">>, "genome_max_age_max">>,
      <<<<"max_age", "survival_cost_per_tick">>, "survival_cost_per_tick">>,
      <<<<"reproduction", "genome_reproduction_rate_range", "genome_reproduction_rate_min">>, "genome_reproduction_rate_min">>,
      <<<<"reproduction", "genome_reproduction_rate_range", "genome_reproduction_rate_max">>, "genome_reproduction_rate_max">>,
      <<<<"reproduction", "genome_safe_reproduction_points_range", "genome_safe_reproduction_points_min">>, "genome_safe_reproduction_points_min">>,
      <<<<"reproduction", "genome_safe_reproduction_points_range", "genome_safe_reproduction_points_max">>, "genome_safe_reproduction_points_max">>,
      <<<<"labels", "collision", "show_collision_labels">>, "show_collision_labels">>,
      <<<<"labels", "collision", "collision_label_force_min">>, "collision_label_force_min">>,
      <<<<"labels", "break_labels", "show_break_labels">>, "show_break_labels">>,
      <<<<"labels", "break_labels", "break_label_impulse_min">>, "break_label_impulse_min">>,
      <<<<"labels", "age", "show_age_labels">>, "show_age_labels">>,
      <<<<"labels", "age", "age_label_range", "age_label_min">>, "age_label_min">>,
      <<<<"labels", "age", "age_label_range", "age_label_max">>, "age_label_max">>,
      <<<<"labels", "energy", "show_energy_labels">>, "show_energy_labels">>,
      <<<<"labels", "energy", "energy_label_range", "energy_label_min">>, "energy_label_min">>,
      <<<<"labels", "energy", "energy_label_range", "energy_label_max">>, "energy_label_max">>>>

\* `if let Some(..)` down the whole path of a leaf.
RECURSIVE Provided(_, _)
Provided(update, path) ==
    /\ path[1] \in DOMAIN update
    /\ Len(path) = 1 \/ Provided(update[path[1]], Tail(path))

\* The value at the end of a path that is there.
RECURSIVE Leaf(_, _)
Leaf(update, path) ==
    IF Len(path) = 1 THEN update[path[1]] ELSE Leaf(update[path[1]], Tail(path))

\* A merge that stops after the stickiness group.
RECURSIVE ApplyStickiness(_, _, _)
ApplyStickiness(update, t, i) ==
    IF i > 3 THEN t
    ELSE ApplyStickiness(update,
                         IF Provided(update, ApplyToLeaves[i][1])
                         THEN [t EXCEPT ![ApplyToLeaves[i][2]] =
                                 Leaf(update, ApplyToLeaves[i][1])]
                         ELSE t,
                         i + 1)

\* The assignments of apply_to from the i-th on.
RECURSIVE ApplyLeaves(_, _, _)
ApplyLeaves(update, t, i) ==
    IF i > Len(ApplyToLeaves) THEN t
    ELSE LET path == ApplyToLeaves[i][1]
             field == ApplyToLeaves[i][2]
         IN  ApplyLeaves(update,
                         IF Provided(update, path)
                         THEN [t EXCEPT ![field] = Leaf(update, path)]
                         ELSE t,
                         i + 1)

\* A merge that starts from the sample values instead of the current ones.
ApplyToSample(update, t) == ApplyLeaves(update, SamplePhysics, 1)

\* ApiTuningUpdate::apply_to.
ApplyTo(update, t) == ApplyLeaves(update, t, 1)

\* impl From<&PhysicsTuning> for ApiTuning.
ToApi(t) ==
    [stickiness |->
        [stick_range |->
            [rel_vel_min |-> t.rel_vel_min,
             rel_vel_max |-> t.rel_vel_max],
         break_threshold |-> t.break_force_threshold],
     energy_share |->
        [energy_transfer_enabled |-> t.energy_transfer_enabled,
         energy_share_diff_threshold |-> t.energy_share_diff_threshold,
         genome_friendly_scent_range |-> t.genome_friendly_scent_range,
         genome_friendly_distance_range |->
            [genome_friendly_distance_min |-> t.genome_friendly_distance_min,
             genome_friendly_distance_max |-> t.genome_friendly_distance_max],
         energy_share_friendly_rate |-> t.energy_share_friendly_rate,
         energy_share_parent_not_friendly_child_friendly_rate |-> t.energy_share_parent_not_friendly_child_friendly_rate,
         energy_share_parent_friendly_child_not_friendly_rate |-> t.energy_share_parent_friendly_child_not_friendly_rate,
         energy_share_hostile_rand_range |->
            [energy_share_hostile_rand_min |-> t.energy_share_hostile_rand_min,
             energy_share_hostile_rand_max |-> t.energy_share_hostile_rand_max],
         genome_energy_share_range |->
            [genome_energy_share_min |-> t.genome_energy_share_min,
             genome_energy_share_max |-> t.genome_energy_share_max]],
     bite |->
        [bite_enabled |-> t.bite_enabled,
         bite_size_scale |-> t.bite_size_scale,
         genome_bite_size_range |->
            [genome_bite_size_min |-> t.genome_bite_size_min,
             genome_bite_size_max |-> t.genome_bite_size_max]],
     max_age |->
        [genome_max_age_range |->
            [genome_max_age_min |-> t.genome_max_age_min,
             genome_max_age_max |-> t.genome_max_age_max],
         survival_cost_per_tick |-> t.survival_cost_per_tick],
     reproduction |->
        [genome_reproduction_rate_range |->
            [genome_reproduction_rate_min |-> t.genome_reproduction_rate_min,
             genome_reproduction_rate_max |-> t.genome_reproduction_rate_max],
         genome_safe_reproduction_points_range |->
            [genome_safe_reproduction_points_min |-> t.genome_safe_reproduction_points_min,
             genome_safe_reproduction_points_max |-> t.genome_safe_reproduction_points_max]],
     labels |->
        [collision |->
            [show_collision_labels |-> t.show_collision_labels,
             collision_label_force_min |-> t.collision_label_force_min],
         break_labels |->
            [show_break_labels |-> t.show_break_labels,
             break_label_impulse_min |-> t.break_label_impulse_min],
         age |->
            [show_age_labels |-> t.show_age_labels,
             age_label_range |->
                [age_label_min |-> t.age_label_min,
                 age_label_max |-> t.age_label_max]],
         energy |->
            [show_energy_labels |-> t.show_energy_labels,
             energy_label_range |->
                [energy_label_min |-> t.energy_label_min,
                 energy_label_max |-> t.energy_label_max]]]]

\* A conversion that carries the stick range and takes the sample for the rest.
FromApiStickRange(api) ==
    [SamplePhysics EXCEPT !.rel_vel_min = api.stickiness.stick_range.rel_vel_min,
                          !.rel_vel_max = api.stickiness.stick_range.rel_vel_max]

\* impl From<ApiTuning> for PhysicsTuning.
FromApi(api) ==
    [rel_vel_min |-> api.stickiness.stick_range.rel_vel_min,
     rel_vel_max |-> api.stickiness.stick_range.rel_vel_max,
     break_force_threshold |-> api.stickiness.break_threshold,
     energy_transfer_enabled |-> api.energy_share.energy_transfer_enabled,
     energy_share_diff_threshold |-> api.energy_share.energy_share_diff_threshold,
     energy_share_friendly_rate |-> api.energy_share.energy_share_friendly_rate,
     energy_share_parent_not_friendly_child_friendly_rate |-> api.energy_share.energy_share_parent_not_friendly_child_friendly_rate,
     energy_share_parent_friendly_child_not_friendly_rate |-> api.energy_share.energy_share_parent_friendly_child_not_friendly_rate,
     energy_share_hostile_rand_min |-> api.energy_share.energy_share_hostile_rand_range.energy_share_hostile_rand_min,
     energy_share_hostile_rand_max |-> api.energy_share.energy_share_hostile_rand_range.energy_share_hostile_rand_max,
     bite_enabled |-> api.bite.bite_enabled,
     bite_size_scale |-> api.bite.bite_size_scale,
     genome_bite_size_min |-> api.bite.genome_bite_size_range.genome_bite_size_min,
     genome_bite_size_max |-> api.bite.genome_bite_size_range.genome_bite_size_max,
     genome_energy_share_min |-> api.energy_share.genome_energy_share_range.genome_energy_share_min,
     genome_energy_share_max |-> api.energy_share.genome_energy_share_range.genome_energy_share_max,
     genome_friendly_distance_min |-> api.energy_share.genome_friendly_distance_range.genome_friendly_distance_min,
     genome_friendly_distance_max |-> api.energy_share.genome_friendly_distance_range.genome_friendly_distance_max,
     genome_friendly_scent_range |-> api.energy_share.genome_friendly_scent_range,
     genome_max_age_min |-> api.max_age.genome_max_age_range.genome_max_age_min,
     genome_max_age_max |-> api.max_age.genome_max_age_range.genome_max_age_max,
     genome_reproduction_rate_min |-> api.reproduction.genome_reproduction_rate_range.genome_reproduction_rate_min,
     genome_reproduction_rate_max |-> api.reproduction.genome_reproduction_rate_range.genome_reproduction_rate_max,
     genome_safe_reproduction_points_min |-> api.reproduction.genome_safe_reproduction_points_range.genome_safe_reproduction_points_min,
     genome_safe_reproduction_points_max |-> api.reproduction.genome_safe_reproduction_points_range.genome_safe_reproduction_points_max,
     survival_cost_per_tick |-> api.max_age.survival_cost_per_tick,
     show_collision_labels |-> api.labels.collision.show_collision_labels,
     collision_label_force_min |-> api.labels.collision.collision_label_force_min,
     show_break_labels |-> api.labels.break_labels.show_break_labels,
     break_label_impulse_min |-> api.labels.break_labels.break_label_impulse_min,
     show_age_labels |-> api.labels.age.show_age_labels,
     age_label_min |-> api.labels.age.age_label_range.age_label_min,
     age_label_max |-> api.labels.age.age_label_range.age_label_max,
     show_energy_labels |-> api.labels.energy.show_energy_labels,
     energy_label_min |-> api.labels.energy.energy_label_range.energy_label_min,
     energy_label_max |-> api.labels.energy.energy_label_range.energy_label_max]

\* ------------------------------------------------------------------ state
VARIABLES
    balls,      \* entity id -> its Ball component, NoBall for no entity, or
                \* Peg for a wall or peg
    nextId,     \* the next entity id a spawn takes
    joints,     \* <<owner, target>> -> number of joint entities that are children
                \* of ball `owner` with BevyImpulseJoint.parent = `target`;
                \* owner 0: joint entities without a ChildOf
    commands,   \* the tick's deferred commands
    ran,        \* the systems that have run in the current tick
    seen,       \* contact pairs whose event `contacts` has handled this tick
    tuning,     \* the PhysicsTuning resource (authoritative)
    mirror,     \* the mutex-guarded mirror PhysicsTuning
    channel,    \* mpsc channel of PhysicsTuning values, in flight
    http,       \* the control-plane thread's position in patch_tuning
    link,       \* which ends of the channel still exist: the Sender (tx) in
                \* the control-plane thread, the Receiver (rx) in the app
    read,       \* the PhysicsTuning values the rules systems that have run in
                \* the current tick read from the resource
    calc        \* the latest call on record: its arguments and result

vars == <<balls, nextId, joints, commands, ran, seen, tuning, mirror, channel,
          http, link, read, calc>>

BallIds == 1..MaxBalls
Owners == 0..MaxBalls
JointKeys == Owners \X BallIds

Exists(b) == balls[b] # NoBall /\ balls[b] # Peg
Living == {b \in BallIds : Exists(b)}

NoCall == [fn |-> "none"]

NoJoints == [k \in JointKeys |-> 0]
NoCommands ==
    [despawn |-> {},           \* commands.entity(ball).despawn()
     new_joints |-> NoJoints,  \* commands.spawn(joint) + add_child
     broken |-> NoJoints,      \* commands.entity(joint).despawn()
     new_balls |-> <<>>]       \* commands.spawn(ball): <<id, Ball, parent>>,
                               \* and the accepted probe for a child

\* Children of a ball: the joint entities it owns.
RECURSIVE ChildrenUpTo(_, _)
ChildrenUpTo(b, t) == IF t = 0 THEN 0 ELSE joints[<<b, t>>] + ChildrenUpTo(b, t - 1)
ChildrenLen(b) == ChildrenUpTo(b, MaxBalls)

\* Joints that point to a ball (BevyImpulseJoint.parent = b).
RECURSIVE TargetUpTo(_, _)
TargetUpTo(b, o) ==
    IF o < 0 THEN 0 ELSE joints[<<o, b>>] + TargetUpTo(b, o - 1)
TargetLen(b) == TargetUpTo(b, MaxBalls)

\* Bevy drops the Children component with the last child.
HasChildren(b) == Exists(b) /\ ChildrenLen(b) > 0

\* The systems that take `Res<PhysicsTuning>`.
RulesSystems ==
    {"contacts", "unstick", "update_life_points", "reproduce_balls", "add_balls"}

\* A step of any system but `contacts` ends the run of `contacts`' event loop.
Touch(system) ==
    /\ system \notin ran
    /\ ran' = ran \cup {system}
    /\ seen' = {}
    /\ read' = IF system \in RulesSystems THEN read \cup {tuning} ELSE read

\* --------------------------------------------------------------- contacts
\* has_more_than_max_joints: a ball without Children has no such excess.
HasMoreThanMaxJoints(collider) ==
    HasChildren(collider) /\ ChildrenLen(collider) > MAX_JOINTS

\* already_has_max_pairwise_joints: counts the children of collider1 whose
\* BevyImpulseJoint.parent is collider2.
AlreadyHasMaxPairwiseJoints(collider1, collider2) ==
    HasChildren(collider1) /\ joints[<<collider1, collider2>>] >= PAIRWISE_JOINTS_ALLOWED

\* Velocity components found by q_velocities, if every collider were to carry
\* one.
HasVelocityAnyCollider(collider) == balls[collider] # NoBall

\* q_velocities finds a Velocity on the balls only: add_balls and
\* reproduce_balls spawn one, setup_whirl spawns walls and pegs without.
HasVelocity(collider) == Exists(collider)

\* q_velocities.get_many on the two colliders.
VelocitiesFound(ev) == HasVelocity(ev.collider1) /\ HasVelocity(ev.collider2)

\* q_balls.get_many_mut on the two colliders.
BallsFound(ev) ==
    /\ ev.collider1 # ev.collider2
    /\ Exists(ev.collider1) /\ Exists(ev.collider2)

\* The negligible filter: two balls, the pair not yet capped, relative speed
\* under rel_vel_min.
Negligible(ev) ==
    /\ Exists(ev.collider1) /\ Exists(ev.collider2)
    /\ ~AlreadyHasMaxPairwiseJoints(ev.collider1, ev.collider2)
    /\ VelocitiesFound(ev)
    /\ ev.rel < tuning.rel_vel_min

\* A force above the threshold makes the contact a high-energy one.
HighEnergy(ev) == ev.force > tuning.break_force_threshold

\* Who bites whom: <<biter, bitten>>, or <<>> for no bite.
Bite(ev) ==
    LET b1 == balls[ev.collider1]
        b2 == balls[ev.collider2]
        scent_distance_sq == ScentDistanceSq(b1.genome_friendly_scent, b2.genome_friendly_scent)
        one_is_friendly == /\ b1.genome_friendly_distance > 0
                           /\ scent_distance_sq < b1.genome_friendly_distance * b1.genome_friendly_distance
        two_is_friendly == /\ b2.genome_friendly_distance > 0
                           /\ scent_distance_sq < b2.genome_friendly_distance * b2.genome_friendly_distance
    IN  IF one_is_friendly /\ two_is_friendly THEN <<>>
        ELSE IF ~one_is_friendly /\ ev.v1 > ev.v2 THEN <<ev.collider1, ev.collider2>>
        ELSE IF ~two_is_friendly /\ ev.v2 > ev.v1 THEN <<ev.collider2, ev.collider1>>
        ELSE <<>>

\* A biter whose gain wraps around the u32 range instead of saturating.
BiterLifeWrapping(bitten, biter) ==
    (biter.life_points + biter.genome_bite_size) % (U32_MAX + 1)

\* The bitten ball loses the biter's bite size, the biter gains it.
BittenLife(bitten, biter) == SaturatingSub(bitten.life_points, biter.genome_bite_size)
BiterLife(bitten, biter) == SaturatingAdd(biter.life_points, biter.genome_bite_size)

AfterBite(bite) ==
    IF bite = <<>> THEN balls
    ELSE [balls EXCEPT
            ![bite[2]].life_points = BittenLife(balls[bite[2]], balls[bite[1]]),
            ![bite[1]].life_points = BiterLife(balls[bite[2]], balls[bite[1]])]

\* A gate that lets every relative speed through.
RelOkAnySpeed(ev) == VelocitiesFound(ev)

\* The relative-velocity gate for joint creation.
RelOk(ev) ==
    /\ VelocitiesFound(ev)
    /\ ev.rel >= tuning.rel_vel_min /\ ev.rel <= tuning.rel_vel_max

\* The creation gate: the caps.
Capped(collider1, collider2) ==
    \/ HasMoreThanMaxJoints(collider1)
    \/ HasMoreThanMaxJoints(collider2)
    \/ AlreadyHasMaxPairwiseJoints(collider1, collider2)

\* The high-energy block ends the event when one of its two lookups fails.
BiteLookupFails(ev) == HighEnergy(ev) /\ ~(BallsFound(ev) /\ VelocitiesFound(ev))

\* Whether the event gets as far as spawning a joint.
CreatesJoint(ev) ==
    /\ ~Negligible(ev)
    /\ ~BiteLookupFails(ev)
    /\ ev.contact_ok
    /\ RelOk(ev)
    /\ ~Capped(ev.collider1, ev.collider2)

\* The joint is spawned with BevyImpulseJoint.parent = collider1 and made a
\* child of collider2.
JointKey(ev) == <<ev.collider2, ev.collider1>>

\* One ContactForceEvent of the loop in `contacts`.  The physics step reports a
\* contact pair once per tick; the speeds obey the triangle inequality.
ContactEvent(ev) ==
    LET pair == {ev.collider1, ev.collider2}
        bite == IF ~Negligible(ev) /\ HighEnergy(ev) /\ ~BiteLookupFails(ev)
                THEN Bite(ev) ELSE <<>>
    IN  /\ ev.collider1 # ev.collider2
        /\ "contacts" \notin ran \/ seen # {}
        /\ pair \notin seen
        /\ ev.rel <= ev.v1 + ev.v2
        /\ ev.rel >= ev.v1 - ev.v2 /\ ev.rel >= ev.v2 - ev.v1
        /\ ran' = ran \cup {"contacts"}
        /\ seen' = seen \cup {pair}
        /\ read' = read \cup {tuning}
        /\ balls' = AfterBite(bite)
        /\ commands' =
             IF CreatesJoint(ev)
             THEN [commands EXCEPT !.new_joints[JointKey(ev)] = @ + 1]
             ELSE commands
        /\ UNCHANGED <<nextId, joints, tuning, mirror, channel, http, link, calc>>

\* ----------------------------------------------------------------- unstick
\* The joints `unstick` can read an impulse of: children of a living ball whose
\* constraint is still in the physics engine's joint set (the engine drops a
\* constraint with either of its bodies).
Readable(key) == key[1] # 0 /\ Exists(key[1]) /\ Exists(key[2])

\* A break test that also breaks a joint whose impulse is at the threshold.
BreaksAtThreshold(impulse_magnitude) ==
    impulse_magnitude >= tuning.break_force_threshold

\* The break test on one read-back impulse magnitude.
Breaks(impulse_magnitude) == impulse_magnitude > tuning.break_force_threshold

\* Of the readable joints of each key, hi_count[key] read back the impulse `hi`
\* and the others the impulse `lo`; every joint whose impulse passes the break
\* test gets a despawn command.
Unstick(lo, hi, hi_count) ==
    /\ Touch("unstick")
    /\ \A key \in JointKeys :
          hi_count[key] <= (IF Readable(key) THEN joints[key] ELSE 0)
    /\ commands' =
         [commands EXCEPT !.broken =
            [key \in JointKeys |->
               IF ~Readable(key) THEN 0
               ELSE (IF Breaks(hi) THEN hi_count[key] ELSE 0)
                  + (IF Breaks(lo) THEN joints[key] - hi_count[key] ELSE 0)]]
    /\ UNCHANGED <<balls, nextId, joints, tuning, mirror, channel, http, link, calc>>

\* ------------------------------------------------------- update_life_points
\* An aging step that charges the survival cost from max_age on.
AgedFromMaxAge(ball) ==
    LET age == IF ball.age = U32_MAX THEN U32_MAX ELSE ball.age + 1
    IN  [ball EXCEPT
           !.age = age,
           !.life_points =
              IF age >= ball.genome_max_age
              THEN SaturatingSub(ball.life_points, tuning.survival_cost_per_tick)
              ELSE ball.life_points]

\* The aging step of one ball: age, then the survival cost past max_age.
Aged(ball) ==
    LET age == IF ball.age = U32_MAX THEN U32_MAX ELSE ball.age + 1
    IN  [ball EXCEPT
           !.age = age,
           !.life_points =
              IF age > ball.genome_max_age
              THEN SaturatingSub(ball.life_points, tuning.survival_cost_per_tick)
              ELSE ball.life_points]

\* A despawn test that spares a ball at exactly the floor.
ExhaustedBelowFloor(ball) == ball.life_points < DESPAWN_FLOOR

\* The despawn test, on the ball after its aging step.
Exhausted(ball) == ball.life_points <= DESPAWN_FLOOR

\* rng.gen_range(low, high) for low < high, at the point `roll` percent of the
\* way: a value of [low, high).
GenRange(low, high, roll) == low + ((high - low) * roll) \div 100

\* `x as i32` of a u32.
I32_MAX == Pow2(U32Bits - 1) - 1
AsI32(x) == IF x > I32_MAX THEN x - Pow2(U32Bits) ELSE x

\* life_points_diff_abs as u32: checked_sub of the two i32 casts, i32::MAX on
\* overflow, then abs (which wraps at i32::MIN where overflow checks are off).
LifePointsDiffAbs(parent_ball, child_ball) ==
    LET diff == AsI32(parent_ball.life_points) - AsI32(child_ball.life_points)
    IN  IF diff > I32_MAX \/ diff < -I32_MAX - 1 THEN I32_MAX
        ELSE IF diff < 0 THEN -diff ELSE diff

\* The near-equal friendly pair: no transfer.
TransferSkipped(parent_ball, child_ball, t) ==
    /\ IsFriendlyWith(parent_ball, child_ball)
    /\ IsFriendlyWith(child_ball, parent_ball)
    /\ LifePointsDiffAbs(parent_ball, child_ball) <= t.energy_share_diff_threshold

\* sharing_rate, in percent; `draw` places the gen_range of the hostile cases.
SharingRate(parent_ball, child_ball, t, draw) ==
    LET parent_is_friendly == IsFriendlyWith(parent_ball, child_ball)
        child_is_friendly == IsFriendlyWith(child_ball, parent_ball)
        far == LifePointsDiffAbs(parent_ball, child_ball)
                  > t.energy_share_diff_threshold
    IN  IF parent_is_friendly /\ child_is_friendly
        THEN t.energy_share_friendly_rate
        ELSE IF ~parent_is_friendly /\ ~child_is_friendly
        THEN IF parent_ball.life_points > child_ball.life_points /\ far
             THEN GenRange(t.energy_share_hostile_rand_min,
                           t.energy_share_hostile_rand_max, draw)
             ELSE IF parent_ball.life_points < child_ball.life_points /\ far
             THEN GenRange(10, 50, draw)
             ELSE 50
        ELSE IF ~parent_is_friendly /\ child_is_friendly
        THEN t.energy_share_parent_not_friendly_child_friendly_rate
        ELSE t.energy_share_parent_friendly_child_not_friendly_rate

\* The life points of the loop body's two copies (`*parent_ball`, `*child_ball`)
\* at its end, for the joint of an owner (its ChildOf parent) and a target.
SharedCopies(parent_ball, child_ball, t, draw) ==
    IF t.energy_transfer_enabled /\ ~TransferSkipped(parent_ball, child_ball, t)
    THEN ShareTotalRoughly(parent_ball.life_points, child_ball.life_points,
                           SharingRate(parent_ball, child_ball, t, draw))
    ELSE <<parent_ball.life_points, child_ball.life_points>>

\* update_life_points when its timer fires.  The second loop, over the joints,
\* computes the energy shares on copies of the two Ball components
\* (`*parent_ball`, `*child_ball`) and stores nothing back.
UpdateLifePoints ==
    /\ Touch("update_life_points")
    /\ balls' = [b \in BallIds |-> IF Exists(b) THEN Aged(balls[b]) ELSE balls[b]]
    /\ commands' =
         [commands EXCEPT !.despawn =
            @ \cup {b \in Living : Exhausted(Aged(balls[b]))}]
    /\ UNCHANGED <<nextId, joints, tuning, mirror, channel, http, link, calc>>

\* ---------------------------------------------------------- reproduce_balls
\* f32::clamp (its bounds in order).
Clamp(x, min, max) == IF x < min THEN min ELSE IF x > max THEN max ELSE x

\* `x as u32` of a float held in 1/100: the fraction is dropped.
HundredthsAsU32(x) == FloatAsU32(IF x < 0 THEN 0 ELSE x \div 100)

\* The random draw against the ball's reproduction rate.
DrawPasses(ball, draw) == ~(draw > ball.genome_relative_reproduction_rate)

\* A life-points test that every ball passes.
AlwaysSafeToReproduce(ball) == TRUE

\* The life-points test of a would-be parent.
SafeToReproduce(ball) ==
    ~(ball.life_points < ball.genome_life_points_safe_to_reproduce)

\* has_too_many_adjacent_joints, over the ball's Children.
HasTooManyAdjacentJoints(b) == ChildrenLen(b) >= ADJACENT_JOINTS_LIMIT

\* A placement that takes the last of the probes that hit nothing.
GetLastBallPosition(free) ==
    IF free = {} THEN PROBE_ANGLES
    ELSE CHOOSE n \in free : \A m \in free : m <= n

\* get_next_ball_position: the first of the PROBE_ANGLES probes that hits
\* nothing, or PROBE_ANGLES for None.  `free` holds the probes that hit nothing.
RECURSIVE FirstFree(_, _)
FirstFree(free, test_angle_ndx) ==
    IF test_angle_ndx = PROBE_ANGLES THEN PROBE_ANGLES
    ELSE IF test_angle_ndx \in free THEN test_angle_ndx
    ELSE FirstFree(free, test_angle_ndx + 1)
GetNextBallPosition(free) == FirstFree(free, 0)

\* The child's genome, field by field: the parent's value plus noise.
ChildMaxAge(parent, noise) ==
    HundredthsAsU32(Clamp(F32(AsF32(parent.genome_max_age) * 100 + noise, 100),
                          0, AsF32(U32_MAX) * 100))
ChildReproductionRate(parent, noise, t) ==
    Clamp(parent.genome_relative_reproduction_rate + noise,
          t.genome_reproduction_rate_min, t.genome_reproduction_rate_max)
ChildBiteSize(parent, noise, t) ==
    HundredthsAsU32(Min(Max(F32(AsF32(parent.genome_bite_size) * 100 + noise, 100),
                            AsF32(t.genome_bite_size_min) * 100),
                        AsF32(t.genome_bite_size_max) * 100))
ChildSafePoints(parent, noise, t) ==
    HundredthsAsU32(Min(Max(F32(AsF32(parent.genome_life_points_safe_to_reproduce) * 100
                                  + noise, 100),
                            AsF32(t.genome_safe_reproduction_points_min) * 100),
                        AsF32(t.genome_safe_reproduction_points_max) * 100))
ChildEnergyShare(parent, noise, t) ==
    Clamp(parent.genome_energy_share_with_children + noise,
          t.genome_energy_share_min, t.genome_energy_share_max)
ChildScent(parent, noise) ==
    <<parent.genome_friendly_scent[1] + noise[1],
      parent.genome_friendly_scent[2] + noise[2]>>
ChildDistance(parent, noise, t) ==
    Clamp(parent.genome_friendly_distance + noise,
          t.genome_friendly_distance_min, t.genome_friendly_distance_max)

\* The child's share of the parent's life points.
ChildLifePoints(parent) ==
    ShareTotalRoughly(parent.life_points, 0,
                      parent.genome_energy_share_with_children)[2]

ChildBall(parent, noise, t) ==
    Ball(0,
         ChildLifePoints(parent),
         ChildMaxAge(parent, noise.max_age),
         ChildReproductionRate(parent, noise.rate, t),
         ChildBiteSize(parent, noise.bite, t),
         ChildSafePoints(parent, noise.safe, t),
         ChildEnergyShare(parent, noise.share, t),
         ChildScent(parent, noise.scent),
         ChildDistance(parent, noise.distance, t))

\* Whether the loop body gets as far as the spawn for ball b: the query yields
\* only balls with Children.
Reproduces(b, draw, free) ==
    /\ Exists(b)
    /\ HasChildren(b)
    /\ DrawPasses(balls[b], draw)
    /\ SafeToReproduce(balls[b])
    /\ ~HasTooManyAdjacentJoints(b)
    /\ GetNextBallPosition(free) # PROBE_ANGLES

\* The spawn commands of one pass, in the query's order: <<id, Ball, parent,
\* test_angle_ndx>>, the child's Transform being the position probed at the
\* accepted angle.
RECURSIVE Offspring(_, _, _, _, _)
Offspring(b, id, draw, free, noise) ==
    IF b > MaxBalls THEN <<>>
    ELSE IF Reproduces(b, draw[b], free[b])
         THEN <<<<id, ChildBall(balls[b], noise[b], tuning), b,
                  GetNextBallPosition(free[b])>>>>
              \o Offspring(b + 1, id + 1, draw, free, noise)
         ELSE Offspring(b + 1, id, draw, free, noise)

\* reproduce_balls when its timer fires.  The parent's reduced life points are
\* written to a copy of its Ball (`let mut parent_ball = *parent_ball`), never
\* to the component.
ReproduceBalls(draw, free, noise) ==
    LET offspring == Offspring(1, nextId, draw, free, noise)
    IN  /\ Touch("reproduce_balls")
        /\ nextId + Len(offspring) <= MaxBalls + 1
        /\ nextId' = nextId + Len(offspring)
        /\ commands' = [commands EXCEPT !.new_balls = @ \o offspring]
        /\ UNCHANGED <<balls, joints, tuning, mirror, channel, http, link, calc>>

\* ------------------------------------------------------------------ add_balls
\* The ranges add_balls draws a genome from; gen_range needs each non-empty.
GenRangesOk(t) ==
    /\ t.genome_max_age_min < t.genome_max_age_max
    /\ t.genome_reproduction_rate_min < t.genome_reproduction_rate_max
    /\ t.genome_bite_size_min < t.genome_bite_size_max
    /\ t.genome_safe_reproduction_points_min < t.genome_safe_reproduction_points_max
    /\ t.genome_energy_share_min < t.genome_energy_share_max
    /\ -t.genome_friendly_scent_range < t.genome_friendly_scent_range
    /\ t.genome_friendly_distance_min < t.genome_friendly_distance_max

NewBall(t, roll) ==
    Ball(0,
         MAX_LIFE_POINTS,
         GenRange(t.genome_max_age_min, t.genome_max_age_max, roll.max_age),
         GenRange(t.genome_reproduction_rate_min, t.genome_reproduction_rate_max,
                  roll.rate),
         GenRange(t.genome_bite_size_min, t.genome_bite_size_max, roll.bite),
         GenRange(t.genome_safe_reproduction_points_min,
                  t.genome_safe_reproduction_points_max, roll.safe),
         GenRange(t.genome_energy_share_min, t.genome_energy_share_max, roll.share),
         <<GenRange(-t.genome_friendly_scent_range, t.genome_friendly_scent_range,
                    roll.scent[1]),
           GenRange(-t.genome_friendly_scent_range, t.genome_friendly_scent_range,
                    roll.scent[2])>>,
         GenRange(t.genome_friendly_distance_min, t.genome_friendly_distance_max,
                  roll.distance))

\* add_balls when its timer fires: the genome is drawn, then the spawn point is
\* probed and a hit ends the pass without a spawn.
AddBalls(roll, hit) ==
    /\ Touch("add_balls")
    /\ GenRangesOk(tuning)
    /\ hit \/ nextId <= MaxBalls
    /\ nextId' = IF hit THEN nextId ELSE nextId + 1
    /\ commands' =
         IF hit THEN commands
         ELSE [commands EXCEPT
                 !.new_balls = Append(@, <<nextId, NewBall(tuning, roll), 0>>)]
    /\ UNCHANGED <<balls, joints, tuning, mirror, channel, http, link, calc>>

\* ------------------------------------------------------- the tuning bridge
\* A drain that takes the first pending value and stops.
DrainedOnce(current, pending) ==
    IF pending = <<>> THEN current ELSE Head(pending)

\* `while let Ok(new_tuning) = rx.0.try_recv()`: every value received is
\* assigned in turn; try_recv fails on an empty channel, connected or not.
RECURSIVE Drained(_, _)
Drained(current, pending) ==
    IF pending = <<>> THEN current ELSE Drained(Head(pending), Tail(pending))

\* A drain in which the mirror takes the first value received only.
MirrorTakesFirst(current, pending) ==
    IF pending = <<>> THEN current ELSE Head(pending)

\* `if let Ok(mut g) = mirror.0.lock() { *g = new_tuning.clone(); }` in the
\* loop: the mirror takes each value received.
MirrorDrained(current, pending) == Drained(current, pending)

\* apply_tuning_updates_system: the resource and the mirror take each value.
ApplyTuningUpdates ==
    /\ Touch("apply_tuning_updates_system")
    /\ link.rx
    /\ tuning' = Drained(tuning, channel)
    /\ mirror' = MirrorDrained(mirror, channel)
    /\ channel' = <<>>
    /\ calc' = [fn |-> "try_recv", received |-> Len(channel)]
    /\ UNCHANGED <<balls, nextId, joints, commands, http, link>>

\* The values the channel holds at most in a run.
MaxPending == 2

\* patch_tuning, first block: under the mirror's lock the update is merged
\* into the mirror and the merged value cloned.
PatchMerge(update) ==
    /\ link.tx
    /\ http.pc \in {"idle", "answered"}
    /\ mirror' = ApplyTo(update, mirror)
    /\ http' = [pc |-> "send", update |-> update,
                new_tuning |-> ApplyTo(update, mirror)]
    /\ UNCHANGED <<balls, nextId, joints, commands, ran, seen, tuning, channel,
                   link, read, calc>>

\* tx.send: an error when the Receiver is gone.
SendResult == IF link.rx THEN "Ok" ELSE "Err"

\* A handler that unwraps the result of the send.
AfterSendUnwrap(result) == IF result = "Err" THEN "panicked" ELSE "respond"

\* `let _ = state.tx.send(..)`: the result is dropped.
AfterSend(result) == "respond"

\* patch_tuning, the send, with the mirror's lock released.
PatchSend ==
    /\ http.pc = "send"
    /\ link.rx => Len(channel) < MaxPending
    /\ channel' = IF link.rx THEN Append(channel, http.new_tuning) ELSE channel
    /\ http' = [pc |-> AfterSend(SendResult), update |-> http.update,
                new_tuning |-> http.new_tuning, sent |-> SendResult]
    /\ UNCHANGED <<balls, nextId, joints, commands, ran, seen, tuning, mirror,
                   link, read, calc>>

\* patch_tuning, second block: the mirror is locked again and converted.
PatchRespond ==
    /\ http.pc = "respond"
    /\ http' = [pc |-> "answered", update |-> http.update,
                new_tuning |-> http.new_tuning, sent |-> http.sent,
                response |-> ToApi(mirror)]
    /\ UNCHANGED <<balls, nextId, joints, commands, ran, seen, tuning, mirror,
                   channel, link, read, calc>>

\* The server thread ends (its `expect`s) and drops the router with the Sender.
SenderDrops ==
    /\ link.tx
    /\ http.pc \in {"idle", "answered"}
    /\ link' = [link EXCEPT !.tx = FALSE]
    /\ UNCHANGED <<balls, nextId, joints, commands, ran, seen, tuning, mirror,
                   channel, http, read, calc>>

\* The app is dropped between two ticks, and the Receiver with it and the
\* values it holds.
ReceiverDrops ==
    /\ link.rx
    /\ ran = {}
    /\ link' = [link EXCEPT !.rx = FALSE]
    /\ channel' = <<>>
    /\ UNCHANGED <<balls, nextId, joints, commands, ran, seen, tuning, mirror,
                   http, read, calc>>

\* -------------------------------------------------------- end of the tick
\* The deferred commands are applied.  A despawn takes the ball and its
\* children (the joints it owns); a joint that points to it stays.  A joint
\* spawned for an owner that is despawned in the same tick either becomes its
\* child first and goes with it, or finds no owner to attach to and stays
\* without one: the order the two systems' command buffers are applied in is
\* the schedule's, which the source does not constrain.
RECURSIVE OrphanedUpTo(_, _)
OrphanedUpTo(target, o) ==
    IF o = 0 THEN 0
    ELSE (IF o \in commands.despawn THEN commands.new_joints[<<o, target>>] ELSE 0)
         + OrphanedUpTo(target, o - 1)

Applied(key, joints_first) ==
    IF key[1] \in commands.despawn THEN 0
    ELSE joints[key] + commands.new_joints[key] - commands.broken[key]
         + (IF key[1] = 0 /\ ~joints_first THEN OrphanedUpTo(key[2], MaxBalls) ELSE 0)

RECURSIVE Spawned(_, _)
Spawned(bs, new_balls) ==
    IF new_balls = <<>> THEN bs
    ELSE Spawned([bs EXCEPT ![Head(new_balls)[1]] = Head(new_balls)[2]],
                 Tail(new_balls))

EndTick(joints_first) ==
    /\ "apply_tuning_updates_system" \in ran \/ channel = <<>>
    /\ joints' = [key \in JointKeys |-> Applied(key, joints_first)]
    /\ balls' = Spawned([b \in BallIds |->
                           IF b \in commands.despawn THEN NoBall ELSE balls[b]],
                        commands.new_balls)
    /\ commands' = NoCommands
    /\ ran' = {}
    /\ seen' = {}
    /\ read' = {}
    /\ UNCHANGED <<nextId, tuning, mirror, channel, http, link, calc>>

\* ------------------------------------------------- the adhesion network
\* Aging passes are modelled while no living ball's age lies in the gap between
\* AgeLimit and the top of the u32 range.
AgeLimit == 91
AgesInRange == \A b \in Living : balls[b].age < AgeLimit \/ balls[b].age >= U32_MAX - 1

\* A ball late in life (past max_age at the next pass), healthy or at the floor.
OldBall(life_points) == Ball(90, life_points, 90, 12000, 100, 20, 50, <<0, 0>>, 15)

IdleBridge ==
    /\ tuning = SamplePhysics
    /\ mirror = SamplePhysics
    /\ channel = <<>>
    /\ http = [pc |-> "idle"]
    /\ link = [tx |-> TRUE, rx |-> TRUE]
    /\ read = {}

\* Runs of the caps: two young balls in lasting contact, no aging pass (its timer
\* fires every 30th tick).
YoungBall == Ball(0, MAX_LIFE_POINTS, 90, 12000, 100, 20, 50, <<0, 0>>, 15)

InitCaps ==
    /\ balls = [b \in BallIds |-> IF b <= 2 THEN YoungBall ELSE NoBall]
    /\ nextId = 3
    /\ joints = NoJoints
    /\ commands = NoCommands
    /\ ran = {}
    /\ seen = {}
    /\ IdleBridge
    /\ calc = NoCall

\* Contact events of the adhesion runs: slow or in-band relative speed, low
\* force, the contact manifold present.
JointEvents ==
    [collider1 : BallIds, collider2 : BallIds, force : {100}, v1 : {100},
     v2 : {100}, rel : {10, 100}, contact_ok : {TRUE}]

\* The balls sit in a row, each touching the next; the physics step reports the
\* contacts of a tick along the row, between living balls.
AlongRow(ev) ==
    /\ ev.collider1 - ev.collider2 \in {-1, 1}
    /\ \A pair \in seen : \A b \in pair : b <= ev.collider1 /\ b <= ev.collider2

InRow(ev) ==
    /\ Exists(ev.collider1) /\ Exists(ev.collider2)
    /\ AlongRow(ev)

\* Impulse read-backs: n joints of one key read the high impulse.
HiCount(key, n) == [k \in JointKeys |-> IF k = key THEN n ELSE 0]

NextCaps ==
    \/ \E ev \in JointEvents : BallsFound(ev) /\ ContactEvent(ev)
    \/ \E key \in JointKeys : \E n \in 0..joints[key] :
          Unstick(100, 36001, HiCount(key, n))
    \/ \E joints_first \in BOOLEAN : EndTick(joints_first)

SpecCaps == InitCaps /\ [][NextCaps]_vars

\* Runs of the adhesion network with aging: every ball is late in life, ball 1
\* at the despawn floor's edge; the joint entities alive or pending stay within
\* JointBudget.
JointBudget == 2
RECURSIVE JointTotalUpTo(_, _, _)
JointTotalUpTo(f, o, t) ==
    IF o < 0 THEN 0
    ELSE IF t = 0 THEN JointTotalUpTo(f, o - 1, MaxBalls)
    ELSE f[<<o, t>>] + JointTotalUpTo(f, o, t - 1)
JointTotal(f) == JointTotalUpTo(f, MaxBalls, MaxBalls)
WithinBudget == JointTotal(joints) + JointTotal(commands.new_joints) < JointBudget

InitJoints ==
    /\ balls = [b \in BallIds |->
                  IF b = 1 THEN OldBall(DESPAWN_FLOOR + 1) ELSE OldBall(MAX_LIFE_POINTS)]
    /\ nextId = MaxBalls + 1
    /\ joints = NoJoints
    /\ commands = NoCommands
    /\ ran = {}
    /\ seen = {}
    /\ IdleBridge
    /\ calc = NoCall

NextJoints ==
    \/ \E ev \in JointEvents :
          InRow(ev) /\ (CreatesJoint(ev) => WithinBudget) /\ ContactEvent(ev)
    \/ \E key \in JointKeys : \E n \in 0..joints[key] :
          Unstick(100, 36001, HiCount(key, n))
    \/ AgesInRange /\ UpdateLifePoints
    \/ \E joints_first \in BOOLEAN : EndTick(joints_first)

SpecJoints == InitJoints /\ [][NextJoints]_vars

\* ------------------------------------------------------- life and bites
\* Contacts are modelled while every living ball's life points are near zero,
\* within LifeDrift hundreds of MAX_LIFE_POINTS, or near the top of the u32
\* range.
LifeDrift == 1
LivesInRange ==
    \A b \in Living :
        \/ balls[b].life_points <= LifeDrift * 100 + 100
        \/ /\ balls[b].life_points >= MAX_LIFE_POINTS - LifeDrift * 100
           /\ balls[b].life_points <= MAX_LIFE_POINTS + LifeDrift * 100
        \/ balls[b].life_points >= U32_MAX - 100

\* Ball 1 and ball 2 are hostile to each other; the others are old, and friends
\* with ball 2.
Biter(life_points) ==
    Ball(0, life_points, 90, 12000, 100, 20, 50, <<-90, 0>>, 15)
Victim(age, life_points) ==
    Ball(age, life_points, 90, 12000, 50, 20, 50, <<90, 0>>, 15)
Bystander(life_points) ==
    Ball(90, life_points, 90, 12000, 30, 20, 50, <<90, 5>>, 50)

InitLife ==
    /\ \E l1 \in {MAX_LIFE_POINTS, U32_MAX - 50} :
       \E victim \in {Victim(0, DESPAWN_FLOOR + 1), Victim(90, 60), Victim(0, 110)} :
       \E l3 \in {DESPAWN_FLOOR + 1, MAX_LIFE_POINTS} :
          balls = [b \in BallIds |->
                     IF b = 1 THEN Biter(l1)
                     ELSE IF b = 2 THEN victim
                     ELSE Bystander(l3)]
    /\ nextId = MaxBalls + 1
    /\ joints = NoJoints
    /\ commands = NoCommands
    /\ ran = {}
    /\ seen = {}
    /\ IdleBridge
    /\ calc = NoCall

\* Hard contacts (force above the break threshold) without a contact manifold.
BiteEvents ==
    [collider1 : BallIds, collider2 : BallIds, force : {36001}, v1 : {100, 200},
     v2 : {100, 200}, rel : {100}, contact_ok : {FALSE}]

NextLife ==
    \/ \E ev \in BiteEvents : InRow(ev) /\ LivesInRange /\ ContactEvent(ev)
    \/ AgesInRange /\ UpdateLifePoints
    \/ \E joints_first \in BOOLEAN : EndTick(joints_first)

SpecLife == InitLife /\ [][NextLife]_vars

\* ---------------------------------------------------------------------------
\* Hard contacts with biting switched off: the authoritative tuning after a
\* PATCH of {"bite": {"bite_enabled": false}} has been drained.
\* ---------------------------------------------------------------------------
BiteOffUpdate == [bite |-> [bite_enabled |-> FALSE]]

InitBiteOff ==
    /\ \E victim \in {Victim(0, DESPAWN_FLOOR + 1), Victim(90, 60), Victim(0, 110)} :
          balls = [b \in BallIds |->
                     IF b = 1 THEN Biter(MAX_LIFE_POINTS)
                     ELSE IF b = 2 THEN victim
                     ELSE Bystander(MAX_LIFE_POINTS)]
    /\ nextId = MaxBalls + 1
    /\ joints = NoJoints
    /\ commands = NoCommands
    /\ ran = {}
    /\ seen = {}
    /\ tuning = ApplyTo(BiteOffUpdate, SamplePhysics)
    /\ mirror = tuning
    /\ channel = <<>>
    /\ http = [pc |-> "idle"]
    /\ link = [tx |-> TRUE, rx |-> TRUE]
    /\ read = {}
    /\ calc = NoCall

SpecBiteOff == InitBiteOff /\ [][NextLife]_vars

\* ---------------------------------------------------------------------------
\* Aging: balls about to reach max_age and at the end of the u32 range, with
\* life points from 0 (bitten empty since the last pass) to MAX_LIFE_POINTS,
\* and a survival cost of 1 or (after a PATCH) of 25.
\* ---------------------------------------------------------------------------
AgingBall(age, life_points) ==
    Ball(age, life_points, 90, 12000, 100, 20, 50, <<0, 0>>, 15)

InitAging ==
    /\ \E age1 \in {88, U32_MAX - 1} : \E life1 \in {0, 10, 30, MAX_LIFE_POINTS} :
       \E age2 \in {89, U32_MAX} :
          balls = [b \in BallIds |->
                     IF b = 1 THEN AgingBall(age1, life1)
                     ELSE IF b = 2 THEN AgingBall(age2, MAX_LIFE_POINTS)
                     ELSE NoBall]
    /\ nextId = 3
    /\ joints = NoJoints
    /\ commands = NoCommands
    /\ ran = {}
    /\ seen = {}
    /\ \E cost \in {1, 25} :
          tuning = [SamplePhysics EXCEPT !.survival_cost_per_tick = cost]
    /\ mirror = tuning
    /\ channel = <<>>
    /\ http = [pc |-> "idle"]
    /\ link = [tx |-> TRUE, rx |-> TRUE]
    /\ read = {}
    /\ calc = NoCall

NextAging ==
    \/ AgesInRange /\ UpdateLifePoints
    \/ \E joints_first \in BOOLEAN : EndTick(joints_first)

SpecAging == InitAging /\ [][NextAging]_vars

\* ---------------------------------------------------------------------------
\* Contacts of every kind: two balls whose friendliness is mutual, one-sided or
\* absent, next to a wall or peg or to an entity that is gone; forces, relative
\* speeds and impulses at and around the thresholds.
\* ---------------------------------------------------------------------------
\* Ball 1 and ball 2 carry scents 30 apart: a friendly distance of 30 does not
\* reach the other ball, one of 31 does.
Neighbour(scent_x, distance, bite) ==
    Ball(0, MAX_LIFE_POINTS, 90, 12000, bite, 20, 50, <<scent_x, 0>>, distance)

InitContact ==
    /\ \E d1 \in {30, 31} : \E d2 \in {30, 31} : \E other \in {Peg, NoBall} :
          balls = [b \in BallIds |->
                     IF b = 1 THEN Neighbour(0, d1, 100)
                     ELSE IF b = 2 THEN Neighbour(30, d2, 50)
                     ELSE other]
    /\ nextId = MaxBalls + 1
    /\ joints = NoJoints
    /\ commands = NoCommands
    /\ ran = {}
    /\ seen = {}
    /\ IdleBridge
    /\ calc = NoCall

\* Forces at and above break_force_threshold, speeds whose difference can be
\* anything from 0 to their sum, relative speeds at and beside the two ends of
\* the sticking band; the contact manifold found or not.
ContactEvents ==
    [collider1 : BallIds, collider2 : BallIds, force : {36000, 36001},
     v1 : {18000, 18001}, v2 : {18000, 18001}, rel : {14, 15, 36000, 36001},
     contact_ok : BOOLEAN]

NextContact ==
    \/ \E ev \in ContactEvents :
          /\ AlongRow(ev)
          /\ LivesInRange
          /\ CreatesJoint(ev) => WithinBudget
          /\ ContactEvent(ev)
    \/ \E joints_first \in BOOLEAN : EndTick(joints_first)

SpecContact == InitContact /\ [][NextContact]_vars

\* ---------------------------------------------------------------------------
\* Adhesion at the thresholds: soft contacts of old, mutually friendly balls
\* with relative speeds at and beside the two ends of the sticking band, joint
\* impulses at and just above break_force_threshold, and aging that takes
\* balls (and with them the far end of a joint) away.
\* ---------------------------------------------------------------------------
BandEvents ==
    [collider1 : BallIds, collider2 : BallIds, force : {100}, v1 : {18000},
     v2 : {18001}, rel : {14, 15, 36000, 36001}, contact_ok : BOOLEAN]

NextBand ==
    \/ \E ev \in BandEvents :
          InRow(ev) /\ (CreatesJoint(ev) => WithinBudget) /\ ContactEvent(ev)
    \/ \E key \in JointKeys : \E n \in 0..joints[key] :
          Unstick(36000, 36001, HiCount(key, n))
    \/ AgesInRange /\ UpdateLifePoints
    \/ \E joints_first \in BOOLEAN : EndTick(joints_first)

SpecBand == InitJoints /\ [][NextBand]_vars

\* ------------------------------------------------------------ reproduction
\* Tunings of the reproduction runs: the sample, and the sample with wider
\* genome bounds.
WiderGenome ==
    [max_age |-> [genome_max_age_range |-> [genome_max_age_max |-> 121]],
     reproduction |->
        [genome_reproduction_rate_range |->
            [genome_reproduction_rate_max |-> 20000],
         genome_safe_reproduction_points_range |->
            [genome_safe_reproduction_points_max |-> 1100]],
     bite |-> [genome_bite_size_range |-> [genome_bite_size_max |-> 410]],
     energy_share |->
        [genome_energy_share_range |-> [genome_energy_share_max |-> 80],
         genome_friendly_distance_range |->
            [genome_friendly_distance_max |-> 105]]]
ReproTunings == {SamplePhysics, ApplyTo(WiderGenome, SamplePhysics)}

\* A tuning whose bite-size and safe-points bounds are odd integers past the
\* range an f32 holds exactly, and a parent with its genome at those bounds.
HugeGenome ==
    [bite |->
        [genome_bite_size_range |-> [genome_bite_size_max |-> Pow2(F32Bits) + 3]],
     reproduction |->
        [genome_safe_reproduction_points_range |->
            [genome_safe_reproduction_points_max |-> Pow2(F32Bits) + 3]]]
HugeParent ==
    Ball(0, U32_MAX, 100, 12000, Pow2(F32Bits) + 3, Pow2(F32Bits) + 3, 50,
         <<0, 0>>, 50)

\* Parents with the genome at the sample's upper bounds, at its lower bounds and
\* in between, with life points around the safe-to-reproduce threshold.
Parents ==
    {Ball(0, l, 120, 12500, 400, 1000, 75, <<0, 0>>, 100) : l \in {999, 1000}}
    \cup {Ball(0, MAX_LIFE_POINTS, 90, 11875, 0, 0, 25, <<0, 0>>, 15)}
    \cup {Ball(0, l, 100, 12000, 100, 20, 50, <<0, 0>>, 50) : l \in {15, 19, 20}}

\* Ball 1 owns one joint to ball 2, which owns none.
InitRepro ==
    /\ \E start \in (ReproTunings \X Parents)
                      \cup {<<ApplyTo(HugeGenome, SamplePhysics), HugeParent>>} :
          /\ tuning = start[1]
          /\ balls = [b \in BallIds |->
                        IF b = 1 THEN start[2]
                        ELSE IF b = 2 THEN YoungBall ELSE NoBall]
    /\ nextId = 3
    /\ joints = [key \in JointKeys |-> IF key = <<1, 2>> THEN 1 ELSE 0]
    /\ commands = NoCommands
    /\ ran = {}
    /\ seen = {}
    /\ mirror = tuning
    /\ channel = <<>>
    /\ http = [pc |-> "idle"]
    /\ link = [tx |-> TRUE, rx |-> TRUE]
    /\ read = {}
    /\ calc = NoCall

\* Noise draws: the ends of each gen_range, none, and a small one.
Noise(max_age, rate, bite, safe, share, scent, distance) ==
    [max_age |-> max_age, rate |-> rate, bite |-> bite, safe |-> safe,
     share |-> share, scent |-> scent, distance |-> distance]
Noises ==
    {Noise(299, 9999, 999, 99999, 9, <<9, 9>>, 9),
     Noise(-300, -10000, -1000, -100000, -10, <<-10, -10>>, -10),
     Noise(0, 0, 0, 0, 0, <<0, 0>>, 0),
     Noise(100, 100, 150, 250, 1, <<1, 0>>, 1)}

\* Draws against the reproduction rate; the probes that hit nothing.
Draws == {0, 12000, 12001, DRAW_DEN - 1}
Frees == {{}, {PROBE_ANGLES - 1}, 0..(PROBE_ANGLES - 1)}

\* Rolls of add_balls: each gen_range at its low end, midway, at its high end.
Rolls == {Noise(r, r, r, r, r, <<r, r>>, r) : r \in {0, 50, 99}}

NextRepro ==
    \/ \E b0 \in BallIds : \E draw \in Draws : \E free \in Frees : \E noise \in Noises :
          ReproduceBalls([b \in BallIds |-> IF b = b0 THEN draw ELSE DRAW_DEN - 1],
                         [b \in BallIds |-> free],
                         [b \in BallIds |-> noise])
    \/ \E roll \in Rolls : \E hit \in BOOLEAN : AddBalls(roll, hit)
    \/ \E joints_first \in BOOLEAN : EndTick(joints_first)

SpecRepro == InitRepro /\ [][NextRepro]_vars

\* ---------------------------------------------------------------------------
\* Placement of the child: a parent in a crowd.  Ball 1 owns one joint to
\* ball 2 and ball 2 none or four that point to ball 1 (contacts reported with
\* ball 1 as collider1 make ball 2 the owner, and the pairwise cap counts the
\* joints ball 1 owns), or ball 1 owns five.  Ball 2 is short of life points
\* and does not reproduce.
\* ---------------------------------------------------------------------------
Crowds == {<<1, 0>>, <<1, ADJACENT_JOINTS_LIMIT - 1>>, <<ADJACENT_JOINTS_LIMIT, 0>>}

InitPlacement ==
    /\ \E parent \in Parents :
          balls = [b \in BallIds |->
                     IF b = 1 THEN parent
                     ELSE IF b = 2 THEN Ball(0, 15, 100, 12000, 100, 20, 50, <<0, 0>>, 50)
                     ELSE NoBall]
    /\ nextId = 3
    /\ \E crowd \in Crowds :
          joints = [key \in JointKeys |->
                      IF key = <<1, 2>> THEN crowd[1]
                      ELSE IF key = <<2, 1>> THEN crowd[2] ELSE 0]
    /\ commands = NoCommands
    /\ ran = {}
    /\ seen = {}
    /\ IdleBridge
    /\ calc = NoCall

\* The probes that hit nothing: none, the last, the third and the last, the
\* second only, all.
Placements ==
    {{}, {PROBE_ANGLES - 1}, {2, PROBE_ANGLES - 1}, {1}, 0..(PROBE_ANGLES - 1)}

NextPlacement ==
    \/ \E draw \in {0, DRAW_DEN - 1} : \E free \in Placements : \E noise \in Noises :
          ReproduceBalls([b \in BallIds |-> draw],
                         [b \in BallIds |-> free],
                         [b \in BallIds |-> noise])
    \/ \E joints_first \in BOOLEAN : EndTick(joints_first)

SpecPlacement == InitPlacement /\ [][NextPlacement]_vars

\* ---------------------------------------------------- share_total_roughly
ShareNumbers == {0, 1, 2, 3, 10, 1000, 1100, MAX_LIFE_POINTS, U32_MAX - 1, U32_MAX}
ShareRates == {0, 1, 25, 33, 50, 75, 99, 100}

InitShare ==
    /\ balls = [b \in BallIds |-> IF b <= 2 THEN YoungBall ELSE NoBall]
    /\ nextId = 3
    /\ joints = NoJoints
    /\ commands = NoCommands
    /\ ran = {}
    /\ seen = {}
    /\ IdleBridge
    /\ calc \in [fn : {"share_total_roughly"}, preferred_number : ShareNumbers,
                 other_number : ShareNumbers, sharing_rate : ShareRates,
                 result : {<<>>}]

\* One call of share_total_roughly on the drawn arguments.
CallShareTotalRoughly ==
    /\ calc.fn = "share_total_roughly"
    /\ calc.result = <<>>
    /\ calc' = [calc EXCEPT !.result =
                  ShareTotalRoughly(calc.preferred_number, calc.other_number,
                                    calc.sharing_rate)]
    /\ UNCHANGED <<balls, nextId, joints, commands, ran, seen, tuning, mirror,
                   channel, http, link, read>>

NextShare == CallShareTotalRoughly

SpecShare == InitShare /\ [][NextShare]_vars

\* ---------------------------------------------------------------------------
\* The body of the joint loop of update_life_points as a function of the two
\* Ball copies and the draw: the difference, the near-equal test, the rate and
\* the split.  The two balls carry scents 30 apart: a friendly distance of 30
\* does not reach the other ball, one of 31 does.  Their life points lie
\* around energy_share_diff_threshold and around the end of the i32 range.
\* ---------------------------------------------------------------------------
SharingLives == {0, 100, 200, 201, MAX_LIFE_POINTS, I32_MAX + 1, U32_MAX}
SharingParents ==
    {Ball(5, l, 90, 12000, 100, 20, 50, <<0, 0>>, d) :
        l \in SharingLives, d \in {30, 31}}
SharingChildren ==
    {Ball(5, l, 90, 12000, 100, 20, 50, <<30, 0>>, d) :
        l \in SharingLives \ {200}, d \in {30, 31}}

InitSharing ==
    /\ balls = [b \in BallIds |-> IF b <= 2 THEN YoungBall ELSE NoBall]
    /\ nextId = 3
    /\ joints = NoJoints
    /\ commands = NoCommands
    /\ ran = {}
    /\ seen = {}
    /\ IdleBridge
    /\ calc \in [fn : {"energy_share"}, parent_ball : SharingParents,
                 child_ball : SharingChildren, draw : {0, 99}, done : {FALSE}]

\* One pass of the loop body on the drawn pair.
CallEnergyShare ==
    /\ calc.fn = "energy_share"
    /\ ~calc.done
    /\ calc' =
         [fn |-> "energy_share",
          parent_ball |-> calc.parent_ball,
          child_ball |-> calc.child_ball,
          draw |-> calc.draw,
          done |-> TRUE,
          life_points_diff_abs |->
              LifePointsDiffAbs(calc.parent_ball, calc.child_ball),
          skipped |-> TransferSkipped(calc.parent_ball, calc.child_ball, tuning),
          sharing_rate |->
              SharingRate(calc.parent_ball, calc.child_ball, tuning, calc.draw),
          result |->
              SharedCopies(calc.parent_ball, calc.child_ball, tuning, calc.draw)]
    /\ UNCHANGED <<balls, nextId, joints, commands, ran, seen, tuning, mirror,
                   channel, http, link, read>>

NextSharing == CallEnergyShare

SpecSharing == InitSharing /\ [][NextSharing]_vars

\* ------------------------------------------------------ the bridge's runs
\* Two PATCH bodies; the app runs the drain, `unstick` and `add_balls` (its
\* spawn point taken) in any order while it lives.
BreakUpdate == [stickiness |-> [break_threshold |-> 4200]]
EnergyLabelUpdate == [labels |-> [energy |-> [show_energy_labels |-> TRUE]]]
BridgeUpdates == {BreakUpdate, EnergyLabelUpdate}

InitBridge ==
    /\ balls = [b \in BallIds |-> IF b <= 2 THEN YoungBall ELSE NoBall]
    /\ nextId = 3
    /\ joints = NoJoints
    /\ commands = NoCommands
    /\ ran = {}
    /\ seen = {}
    /\ IdleBridge
    /\ calc = NoCall

NextBridge ==
    \/ \E update \in BridgeUpdates : PatchMerge(update)
    \/ PatchSend
    \/ PatchRespond
    \/ SenderDrops
    \/ ReceiverDrops
    \/ ApplyTuningUpdates
    \/ link.rx /\ Unstick(100, 36001, NoJoints)
    \/ link.rx /\ AddBalls(Noise(50, 50, 50, 50, 50, <<50, 50>>, 50), TRUE)
    \/ link.rx /\ EndTick(TRUE)

SpecBridge == InitBridge /\ [][NextBridge]_vars

\* PATCH bodies apply_to takes as they are: an age range whose bounds meet and
\* a bite-size range whose bounds are crossed.
EmptyAgeRange ==
    [max_age |->
        [genome_max_age_range |->
            [genome_max_age_min |-> 90, genome_max_age_max |-> 90]]]
CrossedBiteRange ==
    [bite |->
        [genome_bite_size_range |->
            [genome_bite_size_min |-> 300, genome_bite_size_max |-> 200]]]
PatchedUpdates == {EmptyAgeRange, CrossedBiteRange}

Panic == [fn |-> "gen_range", panicked |-> TRUE]

\* add_balls when its timer fires and a genome range of the tuning is empty:
\* gen_range's assertion low < high fails, the app ends and its Receiver goes
\* with it.
AddBallsPanics ==
    /\ Touch("add_balls")
    /\ ~GenRangesOk(tuning)
    /\ calc' = Panic
    /\ link' = [link EXCEPT !.rx = FALSE]
    /\ channel' = <<>>
    /\ UNCHANGED <<balls, nextId, joints, commands, tuning, mirror, http>>

InitPatched == InitBridge

NextPatched ==
    \/ \E update \in PatchedUpdates : PatchMerge(update)
    \/ PatchSend
    \/ PatchRespond
    \/ ApplyTuningUpdates
    \/ \E hit \in BOOLEAN :
         link.rx /\ AddBalls(Noise(50, 50, 50, 50, 50, <<50, 50>>, 50), hit)
    \/ link.rx /\ AddBallsPanics
    \/ link.rx /\ EndTick(TRUE)

SpecPatched == InitPatched /\ [][NextPatched]_vars

\* ------------------------------------------------ apply_to and conversions
\* Update bodies: none, empty groups, the two the repository's tests send, the
\* genome updates above, one with every leaf, and one inside energy_share.
HttpTestUpdate ==
    [stickiness |-> [stick_range |-> [rel_vel_min |-> 111]],
     labels |-> [energy |-> [show_energy_labels |-> TRUE]]]
PartialUpdate ==
    [stickiness |->
        [stick_range |-> [rel_vel_min |-> 123], break_threshold |-> 4200],
     labels |->
        [collision |->
            [show_collision_labels |-> TRUE, collision_label_force_min |-> 330],
         age |->
            [show_age_labels |-> TRUE, age_label_range |-> [age_label_min |-> 500]],
         energy |->
            [show_energy_labels |-> TRUE,
             energy_label_range |-> [energy_label_max |-> 90000]]]]
HostileUpdate ==
    [energy_share |->
        [energy_transfer_enabled |-> FALSE,
         energy_share_hostile_rand_range |->
            [energy_share_hostile_rand_max |-> 95]]]
CallTunings ==
    {SamplePhysics} \cup
    {ApplyTo(update, SamplePhysics) :
        update \in {HttpTestUpdate, PartialUpdate, WiderGenome, HostileUpdate}}
Updates ==
    {EmptyUpdate,
     [stickiness |-> EmptyUpdate],
     [stickiness |-> [stick_range |-> EmptyUpdate], labels |-> EmptyUpdate],
     HttpTestUpdate, PartialUpdate, WiderGenome, HugeGenome, HostileUpdate,
     ToApi(ApplyTo(PartialUpdate, ApplyTo(WiderGenome, SamplePhysics)))}

InitTuning ==
    /\ balls = [b \in BallIds |-> IF b <= 2 THEN YoungBall ELSE NoBall]
    /\ nextId = 3
    /\ joints = NoJoints
    /\ commands = NoCommands
    /\ ran = {}
    /\ seen = {}
    /\ IdleBridge
    /\ calc \in [fn : {"apply_to"}, stage : {0}, update : Updates, t : CallTunings]
                 \cup [fn : {"from"}, stage : {0}, t : CallTunings]

\* upd.apply_to(&mut t), and the same update applied once more.
CallApplyTo ==
    /\ calc.fn = "apply_to"
    /\ calc.stage = 0
    /\ calc' = [fn |-> "apply_to", stage |-> 1, update |-> calc.update,
                t |-> calc.t, result |-> ApplyTo(calc.update, calc.t)]
    /\ UNCHANGED <<balls, nextId, joints, commands, ran, seen, tuning, mirror,
                   channel, http, link, read>>

CallApplyToAgain ==
    /\ calc.fn = "apply_to"
    /\ calc.stage = 1
    /\ calc' = [fn |-> "apply_to", stage |-> 2, update |-> calc.update,
                t |-> calc.t, result |-> calc.result,
                again |-> ApplyTo(calc.update, calc.result)]
    /\ UNCHANGED <<balls, nextId, joints, commands, ran, seen, tuning, mirror,
                   channel, http, link, read>>

\* let api: ApiTuning = (&t).into(); let back: PhysicsTuning = api.into();
CallToApi ==
    /\ calc.fn = "from"
    /\ calc.stage = 0
    /\ calc' = [fn |-> "from", stage |-> 1, t |-> calc.t, api |-> ToApi(calc.t)]
    /\ UNCHANGED <<balls, nextId, joints, commands, ran, seen, tuning, mirror,
                   channel, http, link, read>>

CallFromApi ==
    /\ calc.fn = "from"
    /\ calc.stage = 1
    /\ calc' = [fn |-> "from", stage |-> 2, t |-> calc.t, api |-> calc.api,
                back |-> FromApi(calc.api)]
    /\ UNCHANGED <<balls, nextId, joints, commands, ran, seen, tuning, mirror,
                   channel, http, link, read>>

NextTuning == CallApplyTo \/ CallApplyToAgain \/ CallToApi \/ CallFromApi

SpecTuning == InitTuning /\ [][NextTuning]_vars

\* ==================================================== the adhesion claims
\* C1: no living ball is ever an endpoint (owner or target) of more than
\* MAX_JOINTS joints.
JointsPerBallWithinMax ==
    \A b \in Living : ChildrenLen(b) + TargetLen(b) <= MAX_JOINTS

\* C2: no ordered pair of balls is ever connected by more than
\* PAIRWISE_JOINTS_ALLOWED joints, whatever the order the pair's collision
\* events report the two colliders in.
PairwiseWithinAllowed ==
    \A key \in JointKeys : joints[key] <= PAIRWISE_JOINTS_ALLOWED

\* C3: at the end of every tick both endpoints of every joint exist: a
\* despawned ball takes with it the joints it owns and the joints that point
\* to it.
EndpointsExist ==
    ran = {} =>
        \A key \in JointKeys :
            joints[key] > 0 => key[1] # 0 /\ Exists(key[1]) /\ Exists(key[2])

\* ================================================== the genome claims
\* The children a reproduction pass has commanded, not yet spawned.
PendingChildren ==
    {i \in 1..Len(commands.new_balls) : commands.new_balls[i][3] # 0}

\* C4: at all times every genome field of every ball (max_age, reproduction
\* rate, bite size, safe-reproduction threshold, energy-share fraction,
\* friendly distance) lies within the [min,max] bounds the tuning holds.
GenomeWithinTuning ==
    \A b \in Living :
        /\ balls[b].genome_max_age >= tuning.genome_max_age_min
        /\ balls[b].genome_max_age <= tuning.genome_max_age_max
        /\ balls[b].genome_relative_reproduction_rate >= tuning.genome_reproduction_rate_min
        /\ balls[b].genome_relative_reproduction_rate <= tuning.genome_reproduction_rate_max
        /\ balls[b].genome_bite_size >= tuning.genome_bite_size_min
        /\ balls[b].genome_bite_size <= tuning.genome_bite_size_max
        /\ balls[b].genome_life_points_safe_to_reproduce
             >= tuning.genome_safe_reproduction_points_min
        /\ balls[b].genome_life_points_safe_to_reproduce
             <= tuning.genome_safe_reproduction_points_max
        /\ balls[b].genome_energy_share_with_children >= tuning.genome_energy_share_min
        /\ balls[b].genome_energy_share_with_children <= tuning.genome_energy_share_max
        /\ balls[b].genome_friendly_distance >= tuning.genome_friendly_distance_min
        /\ balls[b].genome_friendly_distance <= tuning.genome_friendly_distance_max

\* C5: the genome_max_age of a child is its parent's plus a noise draw of
\* [-3, 3], clamped into [genome_max_age_min, genome_max_age_max] of the tuning:
\* it lies within those bounds and, where it is not at one of them, within 3 of
\* the parent's.
ChildMaxAgeClamped ==
    \A i \in PendingChildren :
        LET child == commands.new_balls[i][2]
            parent == balls[commands.new_balls[i][3]]
        IN  /\ child.genome_max_age >= tuning.genome_max_age_min
            /\ child.genome_max_age <= tuning.genome_max_age_max
            /\ \/ child.genome_max_age \in {tuning.genome_max_age_min,
                                            tuning.genome_max_age_max}
               \/ child.genome_max_age - parent.genome_max_age \in -3..3

\* A step in which reproduce_balls runs its pass.
ReproduceStep == "reproduce_balls" \notin ran /\ "reproduce_balls" \in ran'

\* The spawn commands a step adds.
NewSpawns == (Len(commands.new_balls) + 1)..Len(commands'.new_balls)

\* C6: every child a reproduction pass commands has its reproduction rate, bite
\* size, safe-reproduction threshold, energy-share fraction and friendly
\* distance within the [min,max] bounds the tuning holds at that tick (for
\* bounds with min <= max).
ChildGenomeWithinTuning ==
    [][ReproduceStep =>
        \A i \in NewSpawns :
            LET child == commands'.new_balls[i][2]
            IN  /\ tuning.genome_reproduction_rate_min <= tuning.genome_reproduction_rate_max
                     => /\ child.genome_relative_reproduction_rate
                             >= tuning.genome_reproduction_rate_min
                        /\ child.genome_relative_reproduction_rate
                             <= tuning.genome_reproduction_rate_max
                /\ tuning.genome_bite_size_min <= tuning.genome_bite_size_max
                     => /\ child.genome_bite_size >= tuning.genome_bite_size_min
                        /\ child.genome_bite_size <= tuning.genome_bite_size_max
                /\ tuning.genome_safe_reproduction_points_min
                      <= tuning.genome_safe_reproduction_points_max
                     => /\ child.genome_life_points_safe_to_reproduce
                             >= tuning.genome_safe_reproduction_points_min
                        /\ child.genome_life_points_safe_to_reproduce
                             <= tuning.genome_safe_reproduction_points_max
                /\ tuning.genome_energy_share_min <= tuning.genome_energy_share_max
                     => /\ child.genome_energy_share_with_children
                             >= tuning.genome_energy_share_min
                        /\ child.genome_energy_share_with_children
                             <= tuning.genome_energy_share_max
                /\ tuning.genome_friendly_distance_min <= tuning.genome_friendly_distance_max
                     => /\ child.genome_friendly_distance
                             >= tuning.genome_friendly_distance_min
                        /\ child.genome_friendly_distance
                             <= tuning.genome_friendly_distance_max]_vars

\* ==================================================== the life claims
\* A step in which update_life_points runs its aging pass.
AgingStep == "update_life_points" \notin ran /\ "update_life_points" \in ran'

\* C7: an aging pass despawns every ball left with 9 life points or less after
\* the survival cost, and does not despawn a ball of 10 life points that owes
\* no survival cost (its age after the increment is not above its max_age).
AgingDespawnsAtFloor ==
    [][AgingStep =>
        \A b \in Living :
            /\ balls'[b].life_points <= 9 => b \in commands'.despawn
            /\ (/\ balls[b].life_points = 10
                /\ balls[b].age + 1 <= balls[b].genome_max_age)
                  => b \notin commands'.despawn /\ balls'[b].life_points = 10]_vars

\* An aging pass has run that left one ball at 9 points, despawned, and one ball
\* at 10, within its max_age, not despawned.
AgedAtTheFloor ==
    /\ "update_life_points" \in ran
    /\ \E b \in Living : balls[b].life_points = 9 /\ b \in commands.despawn
    /\ \E b \in Living :
          /\ balls[b].life_points = 10
          /\ balls[b].age <= balls[b].genome_max_age
          /\ b \notin commands.despawn

\* A step in which `contacts` handles one event.
ContactStep == seen' # {} /\ seen' # seen

\* C8: a contact event leaves the balls as they are, or is a bite between the
\* two colliders: the bitten ball's life_points drops by exactly the biter's
\* genome_bite_size, or to 0 if it held fewer; the biter's rises by exactly its
\* genome_bite_size, saturating at the u32 maximum; nothing else of any ball
\* changes.
BiteIsExact ==
    [][ContactStep =>
        \/ balls' = balls
        \/ \E biter, bitten \in Living :
              LET size == balls[biter].genome_bite_size
              IN  /\ biter # bitten
                  /\ {biter, bitten} \in seen' \ seen
                  /\ balls'[bitten] =
                       [balls[bitten] EXCEPT !.life_points =
                          IF @ < size THEN 0 ELSE @ - size]
                  /\ balls'[biter] =
                       [balls[biter] EXCEPT !.life_points =
                          IF @ + size > U32_MAX THEN U32_MAX ELSE @ + size]
                  /\ \A b \in BallIds \ {biter, bitten} : balls'[b] = balls[b]]_vars

\* Bites have taken ball 2 down to 0 and ball 1 up to the u32 maximum.
BittenToZeroAndSaturated ==
    /\ "contacts" \in ran
    /\ balls[1] # NoBall /\ balls[1].life_points = U32_MAX
    /\ balls[2] # NoBall /\ balls[2].life_points = 0

\* C9: share_total_roughly(a, b, rate) returns two parts whose sum is exactly
\* a + b, the second being floor((a + b) * rate) and the first the remainder,
\* for all life-point values a, b and every rate of [0, 1].
ShareIsExact ==
    (calc.fn = "share_total_roughly" /\ calc.result # <<>>) =>
        LET total == calc.preferred_number + calc.other_number
            lower == (total * calc.sharing_rate) \div RATE_DEN
        IN  /\ calc.result[1] + calc.result[2] = total
            /\ calc.result[2] = lower
            /\ calc.result[1] = total - lower

\* C10: a reproduction pass spawns no child for a ball whose life_points is
\* below its genome_life_points_safe_to_reproduce.
UnsafeNeverSpawns ==
    [][ReproduceStep =>
        \A b \in Living :
            balls[b].life_points < balls[b].genome_life_points_safe_to_reproduce
              => \A i \in NewSpawns : commands'.new_balls[i][3] # b]_vars

\* A reproduction pass has run over a ball with joints and 15 life points under
\* a threshold of 20, and has commanded no child of it.
UnsafeParentPassedOver ==
    /\ "reproduce_balls" \in ran
    /\ \E b \in Living :
          /\ HasChildren(b)
          /\ balls[b].life_points = 15
          /\ balls[b].genome_life_points_safe_to_reproduce = 20
          /\ \A i \in PendingChildren : commands.new_balls[i][3] # b
\* ================================================== the control-plane claims
\* C11: apply_to sets exactly the leaves present in the update, each to the
\* value given, and leaves every other field of the PhysicsTuning as it was, at
\* every nesting level: a leaf counts as present when every group on its path
\* is.  The field of a leaf carries the leaf's name (break_threshold is the
\* field break_force_threshold).
ApplySetsExactlyTheLeavesPresent ==
    (calc.fn = "apply_to" /\ calc.stage >= 1) =>
        LET FieldNamed(path) ==
                IF path[Len(path)] = "break_threshold"
                THEN "break_force_threshold" ELSE path[Len(path)]
            paths == {ApplyToLeaves[i][1] : i \in 1..Len(ApplyToLeaves)}
        IN  /\ {FieldNamed(path) : path \in paths} = DOMAIN calc.t
            /\ DOMAIN calc.result = DOMAIN calc.t
            /\ \A path \in paths :
                  calc.result[FieldNamed(path)] =
                     IF Provided(calc.update, path) THEN Leaf(calc.update, path)
                     ELSE calc.t[FieldNamed(path)]

\* A group present with only some of its leaves, on a tuning that is not the
\* sample, changed the tuning.
PartialGroupApplied ==
    /\ calc.fn = "apply_to" /\ calc.stage >= 1
    /\ Provided(calc.update, <<"stickiness", "stick_range", "rel_vel_min">>)
    /\ Provided(calc.update, <<"labels", "age", "age_label_range">>)
    /\ ~Provided(calc.update, <<"stickiness", "stick_range", "rel_vel_max">>)
    /\ ~Provided(calc.update, <<"labels", "break_labels">>)
    /\ calc.t # SamplePhysics
    /\ calc.result # calc.t

\* C12: the empty update leaves every field as it was, and applying an update
\* twice gives what applying it once gives.
ApplyIsNeutralAndIdempotent ==
    /\ (calc.fn = "apply_to" /\ calc.stage >= 1 /\ DOMAIN calc.update = {})
          => calc.result = calc.t
    /\ (calc.fn = "apply_to" /\ calc.stage = 2) => calc.again = calc.result

\* An update that changes the tuning has been applied a second time.
AppliedTwice ==
    /\ calc.fn = "apply_to" /\ calc.stage = 2
    /\ calc.result # calc.t
    /\ calc.t # SamplePhysics

\* C13: a PhysicsTuning converted to an ApiTuning and back equals the original
\* in every field.
ConversionRoundTrips ==
    (calc.fn = "from" /\ calc.stage = 2) =>
        /\ DOMAIN calc.back = DOMAIN calc.t
        /\ \A field \in DOMAIN calc.t : calc.back[field] = calc.t[field]

\* A tuning that differs from the sample in several groups went there and back.
RoundTripOfChangedTuning ==
    /\ calc.fn = "from" /\ calc.stage = 2
    /\ calc.t.show_age_labels /\ calc.t.break_force_threshold = 4200
    /\ calc.api.labels.age.age_label_range.age_label_min = 500

\* C14: when the drain runs with k >= 1 values pending it takes all k, and
\* afterwards the authoritative PhysicsTuning is the last value sent: a burst
\* sent between two drains collapses to its last value.
DrainStep ==
    "apply_tuning_updates_system" \notin ran /\ "apply_tuning_updates_system" \in ran'
DrainTakesAllKeepsLast ==
    [][(DrainStep /\ Len(channel) >= 1) =>
          /\ channel' = <<>>
          /\ calc'.received = Len(channel)
          /\ tuning' = channel[Len(channel)]]_vars

\* A drain has taken a burst of two different values.
BurstDrained ==
    /\ calc.fn = "try_recv" /\ calc.received >= 2
    /\ "apply_tuning_updates_system" \in ran
    /\ tuning.break_force_threshold = 4200 /\ tuning.show_energy_labels

\* C15: the response of a PATCH carries, for every leaf the request provides,
\* the value provided, whatever the drain does while the request is handled.
ResponseHasTheLeavesProvided ==
    http.pc = "answered" =>
        \A i \in 1..Len(ApplyToLeaves) :
            Provided(http.update, ApplyToLeaves[i][1]) =>
                Leaf(http.response, ApplyToLeaves[i][1])
                    = Leaf(http.update, ApplyToLeaves[i][1])

\* C16: within one tick every rules system reads the same PhysicsTuning.
OneTuningPerTick == Cardinality(read) <= 1

\* C17: a drain of an empty channel, its Sender alive or dropped, leaves the
\* resource and the mirror as they are; with the Receiver gone a PATCH still
\* merges its leaves into the mirror, goes on past the failed send and answers
\* from the mirror.
DeadEndsAreHarmless ==
    [][/\ (DrainStep /\ channel = <<>>) =>
             (tuning' = tuning /\ mirror' = mirror /\ link' = link)
       /\ (~link.rx /\ http'.pc = "send" /\ http # http') =>
             \A i \in 1..Len(ApplyToLeaves) :
                 Provided(http'.update, ApplyToLeaves[i][1]) =>
                     mirror'[ApplyToLeaves[i][2]]
                         = Leaf(http'.update, ApplyToLeaves[i][1])
       /\ (~link.rx /\ http.pc = "send" /\ http # http') =>
             (http'.pc = "respond" /\ http'.sent = "Err" /\ mirror' = mirror)
       /\ (~link.rx /\ http.pc = "respond" /\ http # http') =>
             (http'.pc = "answered" /\ http'.response = ToApi(mirror))]_vars

\* A PATCH whose send found no Receiver has been answered with its leaf.
AnsweredWithoutReceiver ==
    /\ ~link.rx
    /\ http.pc = "answered" /\ http.sent = "Err"
    /\ http.response.stickiness.break_threshold = 4200
    /\ mirror.break_force_threshold = 4200

\* ========================================================== the energy claims
\* C18: in the periodic pass, with one joint in the world whose two endpoints
\* exist and to which the transfer applies, the life points stored in the two
\* endpoint balls after the pass are the parts share_total_roughly returns for
\* them (for some draw of the rate).
SharesAreStored ==
    [][AgingStep =>
          \A key \in JointKeys :
              (/\ JointTotal(joints) = 1 /\ joints[key] = 1
               /\ key[1] # 0 /\ key[1] # key[2]
               /\ Exists(key[1]) /\ Exists(key[2])
               /\ tuning.energy_transfer_enabled
               /\ ~TransferSkipped(Aged(balls[key[1]]), Aged(balls[key[2]]), tuning))
              => \E draw \in 0..99 :
                    <<balls'[key[1]].life_points, balls'[key[2]].life_points>>
                       = SharedCopies(Aged(balls[key[1]]), Aged(balls[key[2]]),
                                      tuning, draw)]_vars

\* C19: when a ball reproduces, the life points stored in it after the pass
\* plus its child's starting life points are its life points before the pass.
LifeIsConservedAtBirth ==
    [][ReproduceStep =>
          \A i \in NewSpawns :
              LET parent == commands'.new_balls[i][3]
                  child_ball == commands'.new_balls[i][2]
              IN  balls'[parent].life_points + child_ball.life_points
                     = balls[parent].life_points]_vars

\* C20: in a reproduction pass every ball with life points at or above its safe
\* threshold, a draw under its rate, fewer than five adjacent joints (none
\* included) and a free probe spawns exactly one child.
EveryEligibleBallSpawns ==
    [][\A b0 \in BallIds : \A draw \in Draws : \A free \in Frees :
        \A noise \in Noises :
          (/\ ReproduceBalls([b \in BallIds |-> IF b = b0 THEN draw
                                                 ELSE DRAW_DEN - 1],
                             [b \in BallIds |-> free],
                             [b \in BallIds |-> noise])
           /\ Exists(b0)
           /\ balls[b0].life_points
                 >= balls[b0].genome_life_points_safe_to_reproduce
           /\ draw < balls[b0].genome_relative_reproduction_rate
           /\ ChildrenLen(b0) + TargetLen(b0) < ADJACENT_JOINTS_LIMIT
           /\ free # {})
          => Cardinality({i \in NewSpawns : commands'.new_balls[i][3] = b0}) = 1]_vars

\* C21.  In every contact between two existing balls whose force is above the
\* break threshold (and whose relative speed is not under rel_vel_min): when
\* the two balls are not friendly towards each other in both directions and
\* their linear speeds differ, the faster ball bites the slower one, whichever
\* of the two is the unfriendly side; when they are mutually friendly or
\* equally fast, no life_points change.
MutuallyFriendly(ev) ==
    /\ IsFriendlyWith(balls[ev.collider1], balls[ev.collider2])
    /\ IsFriendlyWith(balls[ev.collider2], balls[ev.collider1])

FasterBites(ev) ==
    IF ev.v1 > ev.v2 THEN <<ev.collider1, ev.collider2>>
    ELSE <<ev.collider2, ev.collider1>>

FasterBallBitesSlower ==
    [][\A ev \in ContactEvents :
          ( /\ ContactEvent(ev)
            /\ Exists(ev.collider1) /\ Exists(ev.collider2)
            /\ ev.force > tuning.break_force_threshold
            /\ ev.rel >= tuning.rel_vel_min )
          => IF MutuallyFriendly(ev) \/ ev.v1 = ev.v2
             THEN balls' = balls
             ELSE balls' = AfterBite(FasterBites(ev))]_vars

\* C22.  Every contact between two balls whose force is above the break
\* threshold gets the bite classification, whatever its relative speed (one
\* under rel_vel_min included) and however many joints the pair already has.
HardContactAlwaysClassified ==
    [][\A ev \in ContactEvents :
          ( /\ ContactEvent(ev)
            /\ Exists(ev.collider1) /\ Exists(ev.collider2)
            /\ ev.force > tuning.break_force_threshold )
          => balls' = AfterBite(Bite(ev))]_vars

\* C23.  A contact event for which a lookup fails (a collider whose ball is
\* gone, or no contact pair, active contact, manifold or contact point) is
\* skipped without side effect: no life_points change and no joint created.
FailedLookupHasNoEffect ==
    [][\A ev \in ContactEvents :
          ( /\ ContactEvent(ev)
            /\ \/ balls[ev.collider1] = NoBall
               \/ balls[ev.collider2] = NoBall
               \/ ~ev.contact_ok )
          => balls' = balls /\ commands' = commands]_vars

\* C24.  Every joint ever created, applied or still a pending command, connects
\* two balls: a contact in which either collider is a wall or a peg (or is
\* gone) leaves no joint.
JointsConnectBalls ==
    \A key \in JointKeys :
        (joints[key] > 0 \/ commands.new_joints[key] > 0)
            => Exists(key[1]) /\ Exists(key[2])

\* A contact of a ball with a peg has been handled in the tick in which the
\* two balls got a joint.
PegTouchedWhileBallsStick ==
    /\ \E pair \in seen : \E e \in pair : balls[e] = Peg
    /\ \E key \in JointKeys : commands.new_joints[key] > 0

\* C25.  No PATCH is lost.  Each update of the run provides one leaf, always
\* with the same value, which the initial tuning does not have: a tuning holds
\* that value only if a PATCH provided it, and it is then the value of the most
\* recent PATCH that provided the leaf.  So when a drain runs with no request
\* in progress and leaves the channel empty, every leaf value a PATCH provided,
\* held by the authoritative tuning or by a value still queued, is in the
\* authoritative tuning after the drain.
Provides(update, t) == ApplyTo(update, t) = t

NoPatchIsLost ==
    [][(DrainStep /\ http.pc \in {"idle", "answered"}) =>
          \A update \in BridgeUpdates :
              ( \/ Provides(update, tuning)
                \/ \E i \in 1..Len(channel) : Provides(update, channel[i]) )
              => Provides(update, tuning')]_vars

\* C26.  Whenever the channel is empty, no request is in progress and the
\* Receiver is alive (so that every value sent has been taken by a drain that
\* ran after the send), the mirror equals the authoritative PhysicsTuning.
MirrorEqualsTuningWhenQuiet ==
    (channel = <<>> /\ http.pc \in {"idle", "answered"} /\ link.rx)
        => mirror = tuning

\* A PATCH has been sent and answered, and a drain has since taken its value:
\* the tuning is no longer the initial one.
PatchDrainedIntoBoth ==
    /\ http.pc = "answered" /\ http.sent = "Ok"
    /\ channel = <<>> /\ link.rx
    /\ calc = [fn |-> "try_recv", received |-> 1]
    /\ tuning = http.new_tuning
    /\ tuning # SamplePhysics

\* C27.  In an unstick pass a joint owned by a ball gets a despawn command if
\* and only if its read-back impulse magnitude is strictly greater than
\* break_force_threshold: a joint whose impulse is at or below the threshold,
\* or whose handle cannot be read, is left in place.
BreaksOnlyAboveThreshold ==
    [][\A k \in JointKeys : \A n \in 0..joints[k] :
          Unstick(36000, 36001, HiCount(k, n)) =>
            \A key \in JointKeys :
                commands'.broken[key] =
                    IF key[1] # 0 /\ Exists(key[1]) /\ Exists(key[2])
                    THEN (IF 36001 > tuning.break_force_threshold
                          THEN HiCount(k, n)[key] ELSE 0)
                       + (IF 36000 > tuning.break_force_threshold
                          THEN joints[key] - HiCount(k, n)[key] ELSE 0)
                    ELSE 0]_vars

\* Of two joints of one pair, read back in an unstick pass, one (its impulse
\* above the threshold) is to be despawned and one (its impulse at the
\* threshold) stays.
OneBreaksOneStays ==
    /\ "unstick" \in ran
    /\ \E key \in JointKeys : joints[key] = 2 /\ commands.broken[key] = 1

\* C28.  A contact event creates a joint only if its relative speed lies
\* inside [rel_vel_min, rel_vel_max], both ends included; a relative speed
\* outside the band creates none, and one event creates at most one joint.
JointOnlyInsideBand ==
    [][\A ev \in BandEvents :
          ContactEvent(ev) =>
            LET created == JointTotal(commands'.new_joints)
                             - JointTotal(commands.new_joints)
            IN  /\ created \in {0, 1}
                /\ created = 1 =>
                      /\ ev.rel >= tuning.rel_vel_min
                      /\ ev.rel <= tuning.rel_vel_max]_vars

\* The one contact handled so far in the tick has left one joint command.
OneContactOneJoint ==
    /\ Cardinality(seen) = 1
    /\ JointTotal(commands.new_joints) = 1

\* C29.  Child placement probes at most five angles, in order from the
\* starting angle, and takes the first whose probe overlaps no shape other
\* than the parent: every child a pass commands sits at a probed angle 0..4
\* that was free, every earlier angle having been hit.  When all five probes
\* hit, the pass commands no child and leaves the balls as they are.
ChildSitsAtFirstFreeAngle ==
    [][\A draw \in {0, DRAW_DEN - 1} : \A free \in Placements :
        \A noise \in Noises :
          ReproduceBalls([b \in BallIds |-> draw],
                         [b \in BallIds |-> free],
                         [b \in BallIds |-> noise])
          => /\ \A i \in NewSpawns :
                   LET test_angle_ndx == commands'.new_balls[i][4]
                   IN  /\ test_angle_ndx \in 0..4
                       /\ test_angle_ndx \in free
                       /\ \A earlier \in 0..(test_angle_ndx - 1) : earlier \notin free
             /\ free \cap (0..4) = {} =>
                   /\ NewSpawns = {}
                   /\ balls' = balls]_vars

\* A child is to be spawned at the third angle probed, the first two probes
\* having hit something.
ChildAtThirdAngle ==
    \E i \in PendingChildren : commands.new_balls[i][4] = 2

\* C30.  A ball that is an endpoint of five or more joints, the joints it owns
\* and the joints that point to it counted together, does not reproduce in a
\* reproduction pass.
CrowdedBallDoesNotReproduce ==
    [][ReproduceStep =>
          \A i \in NewSpawns :
              LET parent == commands'.new_balls[i][3]
              IN  ChildrenLen(parent) + TargetLen(parent) < 5]_vars

\* ================================================== the energy-sharing claims
\* The pair of a finished pass of the joint loop's body, and what the two
\* endpoints think of each other.
Shared == calc.fn = "energy_share" /\ calc.done
BothFriendly ==
    /\ IsFriendlyWith(calc.parent_ball, calc.child_ball)
    /\ IsFriendlyWith(calc.child_ball, calc.parent_ball)
NeitherFriendly ==
    /\ ~IsFriendlyWith(calc.parent_ball, calc.child_ball)
    /\ ~IsFriendlyWith(calc.child_ball, calc.parent_ball)
TrueDifference ==
    IF calc.parent_ball.life_points >= calc.child_ball.life_points
    THEN calc.parent_ball.life_points - calc.child_ball.life_points
    ELSE calc.child_ball.life_points - calc.parent_ball.life_points
WithinI32 ==
    /\ calc.parent_ball.life_points <= I32_MAX
    /\ calc.child_ball.life_points <= I32_MAX

\* C31.  In joint energy sharing (life points within the i32 range) the
\* transfer is skipped exactly when both endpoints consider each other
\* friendly and the life-point difference is strictly below
\* energy_share_diff_threshold; with both friendly and the difference equal to
\* the threshold, the split at the friendly rate is computed.
SkipOnlyBelowThreshold ==
    (Shared /\ WithinI32) =>
        /\ calc.skipped <=>
              (BothFriendly /\ TrueDifference < tuning.energy_share_diff_threshold)
        /\ (BothFriendly /\ TrueDifference = tuning.energy_share_diff_threshold)
              => calc.result =
                    ShareTotalRoughly(calc.parent_ball.life_points,
                                      calc.child_ball.life_points,
                                      tuning.energy_share_friendly_rate)

\* C32.  In joint energy sharing (life points within the i32 range), when
\* exactly one endpoint considers the other friendly, the split computed with
\* the asymmetric rates gives the endpoint that is not friendly at least as
\* much as the friendly one.
NonFriendlySideGetsMore ==
    (Shared /\ WithinI32) =>
        /\ ( /\ ~IsFriendlyWith(calc.parent_ball, calc.child_ball)
              /\ IsFriendlyWith(calc.child_ball, calc.parent_ball) )
              => calc.result[1] >= calc.result[2]
        /\ ( /\ IsFriendlyWith(calc.parent_ball, calc.child_ball)
              /\ ~IsFriendlyWith(calc.child_ball, calc.parent_ball) )
              => calc.result[2] >= calc.result[1]

\* C33.  In joint energy sharing (life points within the i32 range) between
\* two endpoints neither of which is friendly: when the difference exceeds
\* energy_share_diff_threshold the rate lies in the configured range
\* [energy_share_hostile_rand_min, energy_share_hostile_rand_max] whichever
\* endpoint is the richer, and the split leaves the richer endpoint at least
\* as many life points as the poorer; when it does not, the rate is 0.5.
HostileSplitKeepsTheRicherAhead ==
    (Shared /\ WithinI32 /\ NeitherFriendly) =>
        IF TrueDifference > tuning.energy_share_diff_threshold
        THEN /\ calc.sharing_rate >= tuning.energy_share_hostile_rand_min
             /\ calc.sharing_rate <= tuning.energy_share_hostile_rand_max
             /\ IF calc.parent_ball.life_points > calc.child_ball.life_points
                THEN calc.result[1] >= calc.result[2]
                ELSE calc.result[2] >= calc.result[1]
        ELSE calc.sharing_rate = 50

\* C35.  For all u32 life_points of the two endpoints, those above the i32
\* range included, the difference computed in joint energy sharing is the true
\* absolute difference of the two life_points.
DifferenceIsExact ==
    Shared => calc.life_points_diff_abs = TrueDifference

\* C34.  On each aging pass a ball's age increases by exactly 1 (staying at
\* u32::MAX once there), and its life_points is reduced by
\* survival_cost_per_tick, saturating at 0, if and only if its age after the
\* increment is strictly greater than genome_max_age; nothing else of the
\* ball changes.
AgingIsExact ==
    [][AgingStep =>
        \A b \in Living :
            LET age == IF balls[b].age = U32_MAX THEN U32_MAX
                       ELSE balls[b].age + 1
                life_points ==
                    IF age <= balls[b].genome_max_age
                    THEN balls[b].life_points
                    ELSE IF balls[b].life_points
                               >= tuning.survival_cost_per_tick
                    THEN balls[b].life_points - tuning.survival_cost_per_tick
                    ELSE 0
            IN  balls'[b] = [balls[b] EXCEPT !.age = age,
                                             !.life_points = life_points]]_vars

\* An aging pass has run that brought one ball to its max_age, at no cost, and
\* left another at the age u32::MAX.
ReachedMaxAgeAtNoCost ==
    /\ "update_life_points" \in ran
    /\ \E b \in Living :
          /\ balls[b].age = balls[b].genome_max_age
          /\ balls[b].life_points = MAX_LIFE_POINTS
    /\ \E b \in Living : balls[b].age = U32_MAX

\* The life points of all balls together.
RECURSIVE LifeTotalUpTo(_, _)
LifeTotalUpTo(bs, b) ==
    IF b = 0 THEN 0
    ELSE (IF bs[b] # NoBall /\ bs[b] # Peg THEN bs[b].life_points ELSE 0)
         + LifeTotalUpTo(bs, b - 1)
LifeTotal(bs) == LifeTotalUpTo(bs, MaxBalls)

\* C36.  A bite is a transfer: a contact event never increases the sum of the
\* balls' life_points, the biter gaining no more than the bitten ball loses.
BiteNeverAddsLife ==
    [][ContactStep => LifeTotal(balls') <= LifeTotal(balls)]_vars

\* C38.  The switch bite_enabled governs biting: while the authoritative
\* tuning has bite_enabled = false, no contact event changes the life_points
\* of any ball.
BiteSwitchGovernsBiting ==
    [][(ContactStep /\ ~tuning.bite_enabled) =>
          \A b \in Living :
              balls'[b].life_points = balls[b].life_points]_vars

\* C37: whatever tuning PATCH has put in place, every tick of the systems
\* completes: no call on record is a panic.
EveryTickCompletes == calc # Panic

====
